---- MODULE Spec2Model ----
(***************************************************************************)
(* LipKit: the extraction job of the analyze_audio operator.               *)
(*                                                                         *)
(* The control thread runs the operators (execute, the modal poller, the   *)
(* cancel callback, cancel_analysis, the audio-selection update callback); *)
(* every started job has a worker thread (analyze_thread) that runs        *)
(* LocalPhonemeProvider.extract_phonemes: optional conversion to WAV, the  *)
(* tool subprocess with its stderr monitor, parsing, and the write of the  *)
(* class-level _result.  Class-level fields of LIPKIT_OT_analyze_audio are *)
(* shared by all operator instances and all worker threads.                *)
(***************************************************************************)
EXTENDS Integers, Sequences, FiniteSets, TLC

\* Number of jobs that execute may start in one behaviour.
MaxJobs == 2

Jobs == 1..MaxJobs

\* Python None for the _thread field; job ids start at 1.
NoJob == 0

(***************************************************************************)
(* The file system as the audio utilities see it.                          *)
(***************************************************************************)
\* "" is an unset audio_filepath / no VSE strip.
Paths == {"", "missing.wav", "folder.wav", "empty.wav", "notes.txt", "a.wav", "b.mp3"}

PathExists(p) == p \in {"folder.wav", "empty.wav", "notes.txt", "a.wav", "b.mp3"}

PathIsFile(p) == p \in {"empty.wav", "notes.txt", "a.wav", "b.mp3"}

\* The bytes a regular file may hold; "" is a file of 0 bytes.
Bytes == {"", "A", "B", "C", "T"}

VARIABLE
    content                \* per regular file: the bytes it holds now

\* The files as they are at the start.
ContentInit ==
    [p \in {q \in Paths : PathIsFile(q)} |->
        CASE p = "a.wav" -> "A"
          [] p = "b.mp3" -> "B"
          [] p = "notes.txt" -> "T"
          [] OTHER -> ""]

\* os.path.getsize(filepath): 0, or 1 for "not empty"
FileSize(p) == IF p \in DOMAIN content /\ content[p] # "" THEN 1 ELSE 0

\* os.path.splitext(filepath)[1].lower()
Ext(p) ==
    CASE p \in {"missing.wav", "folder.wav", "empty.wav", "a.wav"} -> ".wav"
      [] p = "b.mp3" -> ".mp3"
      [] p = "notes.txt" -> ".txt"
      [] OTHER -> ""

valid_extensions == {".wav", ".mp3", ".ogg", ".flac", ".m4a", ".aac"}

\* The validation without the size check.
validate_audio_file_NoSizeCheck(filepath) ==
    IF filepath = "" THEN <<FALSE, "No file path provided">>
    ELSE IF ~PathExists(filepath) THEN <<FALSE, "File not found">>
    ELSE IF ~PathIsFile(filepath) THEN <<FALSE, "Path is not a file">>
    ELSE IF Ext(filepath) \notin valid_extensions THEN <<FALSE, "Unsupported audio format">>
    ELSE <<TRUE, "">>

\* validate_audio_file: <<is_valid, error_message>>
validate_audio_file(filepath) ==
    IF filepath = "" THEN <<FALSE, "No file path provided">>
    ELSE IF ~PathExists(filepath) THEN <<FALSE, "File not found">>
    ELSE IF ~PathIsFile(filepath) THEN <<FALSE, "Path is not a file">>
    ELSE IF Ext(filepath) \notin valid_extensions THEN <<FALSE, "Unsupported audio format">>
    ELSE IF FileSize(filepath) = 0 THEN <<FALSE, "Audio file is empty">>
    ELSE <<TRUE, "">>

\* PhonemeProvider.validate_audio
validate_audio(audio_path) == PathExists(audio_path) /\ PathIsFile(audio_path)

\* hashlib.md5(bytes).hexdigest()
md5(bytes) ==
    CASE bytes = "A" -> "h_a"
      [] bytes = "B" -> "h_b"
      [] bytes = "C" -> "h_c"
      [] bytes = "T" -> "h_notes"
      [] OTHER -> "h_empty"

\* A key made from the path instead of the bytes
get_audio_hash_OfPath(audio_path) ==
    IF audio_path \notin DOMAIN content THEN ""
    ELSE IF audio_path = "a.wav" THEN md5("A")
    ELSE IF audio_path = "b.mp3" THEN md5("B")
    ELSE md5("")

\* get_audio_hash: md5 of the bytes; "" when the file cannot be opened.
get_audio_hash(audio_path) ==
    IF audio_path \in DOMAIN content THEN md5(content[audio_path]) ELSE ""

Hashes == {md5(bytes) : bytes \in Bytes}

\* convert_audio_to_wav: base_path + "_converted.wav"
ConvertedPath(input_path) ==
    CASE input_path = "b.mp3" -> "b_converted.wav"
      [] input_path = "notes.txt" -> "notes_converted.wav"
      [] OTHER -> input_path

(***************************************************************************)
(* Tool resolution.                                                        *)
(***************************************************************************)
\* The three sources may name the same executable; "" is an unset property / None.
ScenePaths == {"", "gone/rhubarb", "bin/rhubarb"}

PrefsPaths == {"", "gone/rhubarb", "bin/rhubarb"}

AutoPaths == {"", "bin/rhubarb"}

ToolPaths == ScenePaths \cup PrefsPaths \cup AutoPaths

\* os.path.exists(tool_path)
ToolExists(t) == t = "bin/rhubarb"

\* get_effective_rhubarb_path: first existing of scene, preferences, auto; "" is None.
get_effective_rhubarb_path(scene_path, prefs_path, auto_path) ==
    IF scene_path # "" /\ ToolExists(scene_path) THEN scene_path
    ELSE IF prefs_path # "" /\ ToolExists(prefs_path) THEN prefs_path
    ELSE IF auto_path # "" /\ ToolExists(auto_path) THEN auto_path
    ELSE ""

(***************************************************************************)
(* Values.                                                                 *)
(***************************************************************************)
\* Times are in milliseconds and confidences in thousandths; these are the
\* float values that occur.
Floats == {0, 10, 50, 100, 250, 350, 500, 1000, 1020, 1150, 1250}

SampleRates == {44100, 48000}

\* The int values that occur.
Ints == SampleRates \cup (0..MaxJobs)

\* A Python dict is a function on its keys; {} is the empty function.
EmptyDict == <<>>

\* PhonemeData(phoneme, start_time, end_time, confidence)
PhonemeData(phoneme, start_time, end_time, confidence) ==
    [phoneme |-> phoneme, start_time |-> start_time, end_time |-> end_time,
     confidence |-> confidence, metadata |-> EmptyDict]

\* LipSyncData(...) as _parse_rhubarb_output builds it.  The metadata also
\* tags the object with the job that produced it and the audio it was given.
MkData(j, p, phonemes) ==
    [phonemes |-> phonemes,
     duration |-> IF phonemes = <<>> THEN 0 ELSE phonemes[Len(phonemes)].end_time,
     sample_rate |-> 44100, language |-> "en", phoneme_set |-> "rhubarb",
     metadata |-> [source |-> "rhubarb", job |-> j, src |-> p]]

\* Python None where a LipSyncData is expected.
NoData ==
    [phonemes |-> <<>>, duration |-> 0, sample_rate |-> 0, language |-> "",
     phoneme_set |-> "", metadata |-> [source |-> "None", job |-> NoJob, src |-> ""]]

\* PhonemeData.to_dict
PhonemeData_to_dict(self) ==
    [phoneme |-> self.phoneme, start_time |-> self.start_time,
     end_time |-> self.end_time, confidence |-> self.confidence,
     metadata |-> self.metadata]

\* PhonemeData.from_dict
PhonemeData_from_dict(data) ==
    [phoneme |-> data.phoneme, start_time |-> data.start_time,
     end_time |-> data.end_time,
     confidence |-> IF "confidence" \in DOMAIN data THEN data.confidence ELSE 1000,
     metadata |-> IF "metadata" \in DOMAIN data THEN data.metadata ELSE EmptyDict]

\* LipSyncData.to_dict
to_dict(self) ==
    [phonemes |-> [i \in DOMAIN self.phonemes |-> PhonemeData_to_dict(self.phonemes[i])],
     duration |-> self.duration, sample_rate |-> self.sample_rate,
     language |-> self.language, phoneme_set |-> self.phoneme_set,
     metadata |-> self.metadata]

\* A from_dict that does not read the sample rate
from_dict_DefaultRate(data) ==
    [phonemes |-> [i \in DOMAIN data.phonemes |-> PhonemeData_from_dict(data.phonemes[i])],
     duration |-> data.duration, sample_rate |-> 44100, language |-> data.language,
     phoneme_set |-> data.phoneme_set, metadata |-> data.metadata]

\* LipSyncData.from_dict
from_dict(data) ==
    [phonemes |-> [i \in DOMAIN data.phonemes |-> PhonemeData_from_dict(data.phonemes[i])],
     duration |-> data.duration,
     sample_rate |-> IF "sample_rate" \in DOMAIN data THEN data.sample_rate ELSE 44100,
     language |-> IF "language" \in DOMAIN data THEN data.language ELSE "en",
     phoneme_set |-> IF "phoneme_set" \in DOMAIN data THEN data.phoneme_set ELSE "arpabet",
     metadata |-> IF "metadata" \in DOMAIN data THEN data.metadata ELSE EmptyDict]

(***************************************************************************)
(* JSON text: the document's structure with every leaf as a token.         *)
(***************************************************************************)
TwoDigits(k) == IF k < 10 THEN "0" \o ToString(k) ELSE ToString(k)

ThreeDigits(k) == IF k < 100 THEN "0" \o TwoDigits(k) ELSE ToString(k)

\* float.__repr__ of x / 1000: the shortest decimal that reads back as x
float_repr(x) ==
    ToString(x \div 1000) \o "." \o
    (LET f == x % 1000 IN
     IF f % 100 = 0 THEN ToString(f \div 100)
     ELSE IF f % 10 = 0 THEN TwoDigits(f \div 10)
     ELSE ThreeDigits(f))

\* JSON tokens of a str, a float and an int
json_str(v) == <<"string", v>>

\* The texts of the floats and ints of the model, computed once
FloatReprs == [x \in Floats |-> float_repr(x)]

IntReprs == [n \in Ints |-> ToString(n)]

json_float(x) == <<"number", FloatReprs[x]>>

json_int(n) == <<"number", IntReprs[n]>>

\* The values the decoder reads the tokens as
parse_str(token) == token[2]

parse_float(token) == CHOOSE x \in Floats : FloatReprs[x] = token[2]

parse_int(token) == CHOOSE n \in Ints : IntReprs[n] = token[2]

\* The metadata keys that hold an int; the others hold a str.
IntKeys == {"job"}

dumps_dict(d) ==
    [k \in DOMAIN d |-> IF k \in IntKeys THEN json_int(d[k]) ELSE json_str(d[k])]

loads_dict(t) ==
    [k \in DOMAIN t |-> IF k \in IntKeys THEN parse_int(t[k]) ELSE parse_str(t[k])]

dumps_phoneme(d) ==
    [phoneme |-> json_str(d.phoneme), start_time |-> json_float(d.start_time),
     end_time |-> json_float(d.end_time), confidence |-> json_float(d.confidence),
     metadata |-> dumps_dict(d.metadata)]

loads_phoneme(t) ==
    [phoneme |-> parse_str(t.phoneme), start_time |-> parse_float(t.start_time),
     end_time |-> parse_float(t.end_time), confidence |-> parse_float(t.confidence),
     metadata |-> loads_dict(t.metadata)]

\* json.dumps of the record save_phoneme_data builds
json_dumps(data) ==
    [audio_hash |-> json_str(data.audio_hash),
     audio_filename |-> json_str(data.audio_filename),
     phoneme_data |->
        [phonemes |-> [i \in DOMAIN data.phoneme_data.phonemes |->
                          dumps_phoneme(data.phoneme_data.phonemes[i])],
         duration |-> json_float(data.phoneme_data.duration),
         sample_rate |-> json_int(data.phoneme_data.sample_rate),
         language |-> json_str(data.phoneme_data.language),
         phoneme_set |-> json_str(data.phoneme_data.phoneme_set),
         metadata |-> dumps_dict(data.phoneme_data.metadata)]]

\* json.loads of a text block that holds such a document
json_loads(json_str_) ==
    [audio_hash |-> parse_str(json_str_.audio_hash),
     audio_filename |-> parse_str(json_str_.audio_filename),
     phoneme_data |->
        [phonemes |-> [i \in DOMAIN json_str_.phoneme_data.phonemes |->
                          loads_phoneme(json_str_.phoneme_data.phonemes[i])],
         duration |-> parse_float(json_str_.phoneme_data.duration),
         sample_rate |-> parse_int(json_str_.phoneme_data.sample_rate),
         language |-> parse_str(json_str_.phoneme_data.language),
         phoneme_set |-> parse_str(json_str_.phoneme_data.phoneme_set),
         metadata |-> loads_dict(json_str_.phoneme_data.metadata)]]

\* The class-level _result: None, (True, data) or (False, message).
NoResult == [ok |-> FALSE, msg |-> "None", data |-> NoData]

Success(d) == [ok |-> TRUE, msg |-> "", data |-> d]

Failure(m) == [ok |-> FALSE, msg |-> m, data |-> NoData]

\* A text block of bpy.data.texts holds a JSON document or, after an edit by
\* hand, text that is no JSON; NoText is "name not in bpy.data.texts".
NoText == [absent |-> TRUE]

NotJson == [garbage |-> TRUE]

VARIABLES
    audio_analyzing,       \* props.audio_analyzing
    phoneme_data_cached,   \* props.phoneme_data_cached
    has_phoneme_data,      \* props.has_phoneme_data
    audio_filepath,        \* the audio path the scene properties resolve to
    phoneme_data_cache,    \* operators._phoneme_data_cache
    texts,                 \* bpy.data.texts restricted to the .lipkit_phoneme_ blocks
    cls,                   \* class-level fields of LIPKIT_OT_analyze_audio
    njobs,                 \* number of worker threads created so far
    worker,                \* per job: the worker thread and its subprocess
    poller,                \* per job: the operator instance's modal handler and timer
    wavfiles,              \* converted temporary WAV files that exist
    cancelled,             \* the jobs the user has cancelled
    last                   \* the last operator call on the control thread and its outcome

VARIABLES
    keys,                  \* keyframes of the controller's active action: frame -> index
    strips,                \* the strips of the controller's NLA track "LipSync"
    drivers,               \* per layer of the target object: the driver on its opacity
    control,               \* controller["phoneme_index"]
    ncalls                 \* number of calls of generate and create_driver so far

\* The controller and the target object
scene == <<keys, strips, drivers, control, ncalls>>

vars == <<audio_analyzing, phoneme_data_cached, has_phoneme_data, audio_filepath,
          phoneme_data_cache, texts, cls, njobs, worker, poller, wavfiles, cancelled, last,
          content, keys, strips, drivers, control, ncalls>>

\* The state outside the extraction job: no action of the job changes it.
outside == <<content, scene>>

\* The layers (or shape keys) of the target object
Layers == {"LayerA", "LayerB", "LayerC"}

\* A layer without a driver
NoDriver == [expression |-> <<"none">>, variables |-> <<>>]

\* A controller without animation and a target object without drivers
SceneInit ==
    /\ keys = <<>>
    /\ strips = <<>>
    /\ drivers = [l \in Layers |-> NoDriver]
    /\ control = 0
    /\ ncalls = 0

props == <<audio_analyzing, phoneme_data_cached, has_phoneme_data, audio_filepath>>

\* Class state as declared in the class body.
ClsInit ==
    [_thread |-> NoJob, _result |-> NoResult, _progress_percent |-> 0,
     _progress_message |-> "", _start_time |-> "None", _cancelled |-> FALSE]

\* pc: the worker's position; threaded: run by analyze_thread (otherwise
\* extract_phonemes is called directly); proc: the tool subprocess, with its
\* exit code and stdout once it has exited; stderr_lines: the last line the
\* monitor collected; timed_out: communicate raised TimeoutExpired;
\* spawned: the subprocesses started so far; raised/cause/returned: how
\* extract_phonemes ended; wrote: the result analyze_thread stored for this job.
WorkerInit ==
    [pc |-> "unborn", threaded |-> TRUE, audio_path |-> "", tool_path |-> "",
     wav_path |-> "", proc |-> "none", returncode |-> 0, stdout_data |-> "",
     stderr_lines |-> "", timed_out |-> FALSE, spawned |-> {},
     raised |-> "", cause |-> "", returned |-> NoData, wrote |-> NoResult]

PollerInit == [modal |-> FALSE, timer |-> FALSE]

\* op: the operator; ret: its return value; level, text: its report; job: the
\* operator instance's job; stale: the stale-state reset ran (it is logged);
\* rhubarb: the tool path the configuration resolved to when execute was called.
LastInit ==
    [op |-> "", ret |-> "", level |-> "", text |-> "", job |-> NoJob,
     stale |-> FALSE, rhubarb |-> ""]

\* threading.Thread.is_alive() of job j's worker
is_alive(j) == worker[j].pc \in {"start", "extract", "convert", "communicate", "finishing"}

\* "_thread is not None and _thread.is_alive()"
ThreadAlive(c) == c._thread # NoJob /\ is_alive(c._thread)

\* The host state may carry audio_analyzing = True from a scene that was saved
\* during an analysis, while the in-memory class state is fresh.
Init ==
    /\ audio_analyzing \in BOOLEAN
    /\ phoneme_data_cached = FALSE
    /\ has_phoneme_data = FALSE
    /\ audio_filepath = ""
    /\ phoneme_data_cache = NoData
    /\ texts = [h \in Hashes |-> NoText]
    /\ cls = ClsInit
    /\ njobs = 0
    /\ worker = [j \in Jobs |-> WorkerInit]
    /\ poller = [j \in Jobs |-> PollerInit]
    /\ wavfiles = {}
    /\ cancelled = {}
    /\ last = LastInit
    /\ content = ContentInit
    /\ SceneInit

\* A load that does not compare the recorded hash with the file's
load_phoneme_data_NoHashCheck(audio_path) ==
    LET audio_hash == get_audio_hash(audio_path) IN
    IF audio_hash = "" THEN <<FALSE, NoData, "Failed to hash audio file">>
    ELSE IF texts[audio_hash] = NoText
    THEN <<FALSE, NoData, "No saved data for this audio file">>
    ELSE IF texts[audio_hash] = NotJson THEN <<FALSE, NoData, "Failed to load">>
    ELSE <<TRUE, from_dict(json_loads(texts[audio_hash]).phoneme_data),
           "Loaded phoneme data">>

(***************************************************************************)
(* phoneme_storage                                                         *)
(***************************************************************************)
\* load_phoneme_data: <<success, lipsync_data, message>>
load_phoneme_data(audio_path) ==
    LET audio_hash == get_audio_hash(audio_path) IN
    IF audio_hash = "" THEN <<FALSE, NoData, "Failed to hash audio file">>
    ELSE IF texts[audio_hash] = NoText
        THEN <<FALSE, NoData, "No saved data for this audio file">>
    ELSE IF texts[audio_hash] = NotJson
        THEN <<FALSE, NoData, "Failed to load">>
    ELSE LET data == json_loads(texts[audio_hash]) IN
         IF data.audio_hash # audio_hash
         THEN <<FALSE, NoData, "Audio file has changed - data is outdated">>
         ELSE <<TRUE, from_dict(data.phoneme_data), "Loaded phoneme data">>

\* save_phoneme_data: the text blocks afterwards (unchanged when hashing fails)
save_phoneme_data(audio_path, lipsync_data) ==
    LET audio_hash == get_audio_hash(audio_path) IN
    IF audio_hash = "" THEN texts
    ELSE [texts EXCEPT ![audio_hash] =
             json_dumps([audio_hash |-> audio_hash, audio_filename |-> audio_path,
                         phoneme_data |-> to_dict(lipsync_data)])]

\* A delete that empties the store when it finds no entry
delete_phoneme_data_MissClears(audio_path) ==
    LET audio_hash == get_audio_hash(audio_path) IN
    IF audio_hash = "" THEN <<FALSE, "Failed to hash audio file", texts>>
    ELSE IF texts[audio_hash] = NoText
    THEN <<FALSE, "Failed to delete", [h \in DOMAIN texts |-> NoText]>>
    ELSE <<TRUE, "Phoneme data deleted", [texts EXCEPT ![audio_hash] = NoText]>>

\* delete_phoneme_data: <<success, message, the text blocks afterwards>>
delete_phoneme_data(audio_path) ==
    LET audio_hash == get_audio_hash(audio_path) IN
    IF audio_hash = "" THEN <<FALSE, "Failed to hash audio file", texts>>
    ELSE IF texts[audio_hash] = NoText THEN <<FALSE, "No data to delete", texts>>
    ELSE <<TRUE, "Phoneme data deleted", [texts EXCEPT ![audio_hash] = NoText]>>

(***************************************************************************)
(* LIPKIT_OT_analyze_audio.execute                                         *)
(***************************************************************************)
Report(op, ret, level, text, j) ==
    [op |-> op, ret |-> ret, level |-> level, text |-> text, job |-> j,
     stale |-> FALSE, rhubarb |-> ""]

\* The safety check at the top of execute.
StaleState == audio_analyzing /\ ~ThreadAlive(cls)

\* The check without the look at the thread.
AlreadyRunning_FlagOnly == audio_analyzing

AlreadyRunning == audio_analyzing /\ ThreadAlive(cls)

\* What an execute call leaves in "last"; sp, pp, ap: the tool configuration.
ExecReport(ret, level, text, j, sp, pp, ap) ==
    [op |-> "execute", ret |-> ret, level |-> level, text |-> text, job |-> j,
     stale |-> StaleState, rhubarb |-> get_effective_rhubarb_path(sp, pp, ap)]

\* Class state after the stale-state reset (if it applies).
AfterStaleCheck ==
    IF StaleState
    THEN [cls EXCEPT !._progress_percent = 0, !._progress_message = "",
                     !._start_time = "None"]
    ELSE cls

\* "Reset class state" before the tool lookup.
ResetForStart(c) ==
    [c EXCEPT !._result = NoResult, !._progress_percent = 0,
              !._progress_message = "Starting...", !._start_time = "None",
              !._cancelled = FALSE]

\* execute: a worker recorded in _thread is alive.
ExecuteRejected(sp, pp, ap) ==
    /\ UNCHANGED <<cancelled, outside>>
    /\ AlreadyRunning
    /\ last' = ExecReport("CANCELLED", "WARNING", "Analysis already in progress", NoJob,
                          sp, pp, ap)
    /\ UNCHANGED <<props, phoneme_data_cache, texts, cls, njobs, worker, poller, wavfiles>>

\* execute: no audio selected, or validate_audio_file fails.
ExecuteInvalid(sp, pp, ap) ==
    /\ UNCHANGED <<cancelled, outside>>
    /\ ~AlreadyRunning
    /\ audio_filepath = "" \/ ~validate_audio_file(audio_filepath)[1]
    /\ audio_analyzing' = FALSE
    /\ cls' = AfterStaleCheck
    /\ last' = ExecReport("CANCELLED", "ERROR",
                          IF audio_filepath = "" THEN "No audio file selected"
                          ELSE validate_audio_file(audio_filepath)[2], NoJob, sp, pp, ap)
    /\ UNCHANGED <<phoneme_data_cached, has_phoneme_data, audio_filepath,
                   phoneme_data_cache, texts, njobs, worker, poller, wavfiles>>

\* A cached path that leaves the flags of the properties as they are
ExecuteCached_NoFlags(sp, pp, ap) ==
    /\ UNCHANGED <<cancelled, outside>>
    /\ ~AlreadyRunning
    /\ audio_filepath # "" /\ validate_audio_file(audio_filepath)[1]
    /\ load_phoneme_data(audio_filepath)[1]
    /\ audio_analyzing' = FALSE
    /\ cls' = AfterStaleCheck
    /\ phoneme_data_cache' = load_phoneme_data(audio_filepath)[2]
    /\ last' = ExecReport("FINISHED", "INFO", load_phoneme_data(audio_filepath)[3], NoJob,
                          sp, pp, ap)
    /\ UNCHANGED <<phoneme_data_cached, has_phoneme_data, audio_filepath, texts, njobs,
                   worker, poller, wavfiles>>

\* execute: the store holds data for the audio.
ExecuteCached(sp, pp, ap) ==
    /\ UNCHANGED <<cancelled, outside>>
    /\ ~AlreadyRunning
    /\ audio_filepath # "" /\ validate_audio_file(audio_filepath)[1]
    /\ load_phoneme_data(audio_filepath)[1]
    /\ audio_analyzing' = FALSE
    /\ cls' = AfterStaleCheck
    /\ phoneme_data_cache' = load_phoneme_data(audio_filepath)[2]
    /\ phoneme_data_cached' = TRUE
    /\ has_phoneme_data' = TRUE
    /\ last' = ExecReport("FINISHED", "INFO", load_phoneme_data(audio_filepath)[3], NoJob,
                          sp, pp, ap)
    /\ UNCHANGED <<audio_filepath, texts, njobs, worker, poller, wavfiles>>

\* execute: no existing tool executable is resolved.
ExecuteNoTool(sp, pp, ap) ==
    /\ UNCHANGED <<cancelled, outside>>
    /\ ~AlreadyRunning
    /\ audio_filepath # "" /\ validate_audio_file(audio_filepath)[1]
    /\ ~load_phoneme_data(audio_filepath)[1]
    /\ get_effective_rhubarb_path(sp, pp, ap) = ""
    /\ audio_analyzing' = FALSE
    /\ cls' = ResetForStart(AfterStaleCheck)
    /\ last' = ExecReport("CANCELLED", "ERROR", "Rhubarb not found", NoJob, sp, pp, ap)
    /\ UNCHANGED <<phoneme_data_cached, has_phoneme_data, audio_filepath,
                   phoneme_data_cache, texts, njobs, worker, poller, wavfiles>>

\* An execute that runs the tool's version check itself before it starts
\* the thread.
StartJob_ChecksTool(j, rhubarb_path, sp, pp, ap) ==
    /\ audio_analyzing' = TRUE
    /\ phoneme_data_cached' = FALSE
    /\ cls' = [ResetForStart(AfterStaleCheck) EXCEPT !._thread = j]
    /\ njobs' = j
    /\ worker' = [worker EXCEPT ![j] =
                     [WorkerInit EXCEPT !.pc = "start", !.audio_path = audio_filepath,
                                        !.tool_path = rhubarb_path,
                                        !.spawned = {"version"}]]
    /\ poller' = [poller EXCEPT ![j] = [modal |-> TRUE, timer |-> TRUE]]
    /\ last' = ExecReport("RUNNING_MODAL", "INFO", "Analyzing...", j, sp, pp, ap)
    /\ UNCHANGED <<has_phoneme_data, audio_filepath, phoneme_data_cache, texts, wavfiles>>

\* execute: starts the worker thread and the modal poller of a new job.
StartJob(j, rhubarb_path, sp, pp, ap) ==
    /\ audio_analyzing' = TRUE
    /\ phoneme_data_cached' = FALSE
    /\ cls' = [ResetForStart(AfterStaleCheck) EXCEPT !._thread = j]
    /\ njobs' = j
    /\ worker' = [worker EXCEPT ![j] =
                     [WorkerInit EXCEPT !.pc = "start", !.audio_path = audio_filepath,
                                        !.tool_path = rhubarb_path]]
    /\ poller' = [poller EXCEPT ![j] = [modal |-> TRUE, timer |-> TRUE]]
    /\ last' = ExecReport("RUNNING_MODAL", "INFO", "Analyzing...", j, sp, pp, ap)
    /\ UNCHANGED <<has_phoneme_data, audio_filepath, phoneme_data_cache, texts, wavfiles>>

ExecuteStart(sp, pp, ap) ==
    /\ UNCHANGED <<cancelled, outside>>
    /\ ~AlreadyRunning
    /\ audio_filepath # "" /\ validate_audio_file(audio_filepath)[1]
    /\ ~load_phoneme_data(audio_filepath)[1]
    /\ njobs < MaxJobs
    /\ get_effective_rhubarb_path(sp, pp, ap) # ""
    /\ StartJob(njobs + 1, get_effective_rhubarb_path(sp, pp, ap), sp, pp, ap)

(***************************************************************************)
(* LIPKIT_OT_analyze_audio.modal, _process_result, cancel                  *)
(***************************************************************************)
\* _reset_state
ResetState(c) ==
    [c EXCEPT !._progress_percent = 0, !._progress_message = "", !._start_time = "None",
              !._result = NoResult, !._thread = NoJob, !._cancelled = FALSE]

\* The reset that the ESC, thread-died and timeout branches of modal share.
ResetProgressAndThread(c) ==
    [c EXCEPT !._progress_percent = 0, !._progress_message = "", !._start_time = "None",
              !._thread = NoJob]

\* The poller's operator instance ends: timer removed, modal handler gone.
EndPoller(p) == poller' = [poller EXCEPT ![p] = [modal |-> FALSE, timer |-> FALSE]]

\* Modal handlers are called newest first; ESC is consumed by the first one.
TopHandler(p) == poller[p].modal /\ \A q \in Jobs : poller[q].modal => q <= p

\* modal: ESC
ModalEsc(p) ==
    /\ cancelled' = cancelled \cup {p}
    /\ UNCHANGED outside
    /\ TopHandler(p)
    /\ cls' = [ResetProgressAndThread(cls) EXCEPT !._cancelled = TRUE]
    /\ audio_analyzing' = FALSE
    /\ EndPoller(p)
    /\ last' = Report("modal", "CANCELLED", "WARNING", "Analysis cancelled by user", p)
    /\ UNCHANGED <<phoneme_data_cached, has_phoneme_data, audio_filepath,
                   phoneme_data_cache, texts, njobs, worker, wavfiles>>

\* _process_result on a cancelled job
ProcessCancelled(p) ==
    /\ cls' = ResetState(cls)
    /\ last' = Report("modal", "CANCELLED", "WARNING", "Analysis cancelled", p)
    /\ UNCHANGED <<phoneme_data_cached, has_phoneme_data, phoneme_data_cache, texts>>

\* _process_result on (True, data): saved under the audio selected now
ProcessSuccess(p) ==
    /\ texts' = IF audio_filepath # ""
                THEN save_phoneme_data(audio_filepath, cls._result.data)
                ELSE texts
    /\ phoneme_data_cache' = cls._result.data
    /\ phoneme_data_cached' = TRUE
    /\ has_phoneme_data' = TRUE
    /\ cls' = ResetState(cls)
    /\ last' = Report("modal", "FINISHED", "INFO", "Analyzed", p)

\* _process_result on (False, message)
ProcessFailure(p) ==
    /\ cls' = ResetState(cls)
    /\ last' = Report("modal", "CANCELLED", "ERROR", cls._result.msg, p)
    /\ UNCHANGED <<phoneme_data_cached, has_phoneme_data, phoneme_data_cache, texts>>

\* _process_result
ProcessResult(p) ==
    /\ audio_analyzing' = FALSE
    /\ IF cls._cancelled THEN ProcessCancelled(p)
       ELSE IF cls._result.ok THEN ProcessSuccess(p)
       ELSE ProcessFailure(p)

\* modal: TIMER, a result is present
ModalResultReady(p) ==
    /\ UNCHANGED <<cancelled, outside>>
    /\ poller[p].modal
    /\ cls._result # NoResult
    /\ EndPoller(p)
    /\ ProcessResult(p)
    /\ UNCHANGED <<audio_filepath, njobs, worker, wavfiles>>

\* modal: TIMER, no result and the recorded thread is not alive
ModalThreadDied(p) ==
    /\ UNCHANGED <<cancelled, outside>>
    /\ poller[p].modal
    /\ cls._result = NoResult
    /\ ~ThreadAlive(cls)
    /\ EndPoller(p)
    /\ audio_analyzing' = FALSE
    /\ cls' = ResetProgressAndThread(cls)
    /\ last' = Report("modal", "CANCELLED", "ERROR", "Analysis failed unexpectedly", p)
    /\ UNCHANGED <<phoneme_data_cached, has_phoneme_data, audio_filepath,
                   phoneme_data_cache, texts, njobs, worker, wavfiles>>

\* A timeout branch that leaves the analyzing flag set.
ModalTimeout_KeepsFlag(p) ==
    /\ UNCHANGED <<cancelled, outside>>
    /\ poller[p].modal
    /\ cls._result = NoResult
    /\ ThreadAlive(cls)
    /\ cls._start_time = "over900"
    /\ EndPoller(p)
    /\ cls' = ResetProgressAndThread(cls)
    /\ last' = Report("modal", "CANCELLED", "ERROR", "Analysis timed out after 15 minutes", p)
    /\ UNCHANGED <<props, phoneme_data_cache, texts, njobs, worker, wavfiles>>

\* modal: TIMER, time.time() - _start_time > 900
ModalTimeout(p) ==
    /\ UNCHANGED <<cancelled, outside>>
    /\ poller[p].modal
    /\ cls._result = NoResult
    /\ ThreadAlive(cls)
    /\ cls._start_time = "over900"
    /\ EndPoller(p)
    /\ audio_analyzing' = FALSE
    /\ cls' = ResetProgressAndThread(cls)
    /\ last' = Report("modal", "CANCELLED", "ERROR", "Analysis timed out after 15 minutes", p)
    /\ UNCHANGED <<phoneme_data_cached, has_phoneme_data, audio_filepath,
                   phoneme_data_cache, texts, njobs, worker, wavfiles>>

\* modal: TIMER, the thread is still running: status bar only
ModalProgress(p) ==
    /\ UNCHANGED <<cancelled, outside>>
    /\ poller[p].modal
    /\ cls._result = NoResult
    /\ ThreadAlive(cls)
    /\ cls._start_time # "over900"
    /\ last' = Report("modal", "PASS_THROUGH", "", "", p)
    /\ UNCHANGED <<props, phoneme_data_cache, texts, cls, njobs, worker, poller, wavfiles>>

\* cancel: the host cancels the running operator instance
OperatorCancel(p) ==
    /\ cancelled' = cancelled \cup {p}
    /\ UNCHANGED outside
    /\ poller[p].modal
    /\ audio_analyzing' = FALSE
    /\ EndPoller(p)
    /\ cls' = ResetState([cls EXCEPT !._cancelled = TRUE])
    /\ last' = Report("cancel", "", "", "", p)
    /\ UNCHANGED <<phoneme_data_cached, has_phoneme_data, audio_filepath,
                   phoneme_data_cache, texts, njobs, worker, wavfiles>>

(***************************************************************************)
(* LIPKIT_OT_cancel_analysis.execute                                       *)
(***************************************************************************)
\* The jobs whose operator instance is still running when the button is pressed.
InProgress == {j \in Jobs : poller[j].modal}

CancelAnalysis ==
    /\ cancelled' = cancelled \cup InProgress
    /\ UNCHANGED outside
    /\ cls' = [cls EXCEPT !._cancelled = TRUE, !._progress_percent = 0,
                          !._progress_message = "", !._start_time = "None",
                          !._result = NoResult, !._thread = NoJob]
    /\ audio_analyzing' = FALSE
    /\ last' = Report("cancel_analysis", "FINISHED", "WARNING", "Analysis cancelled", NoJob)
    /\ UNCHANGED <<phoneme_data_cached, has_phoneme_data, audio_filepath,
                   phoneme_data_cache, texts, njobs, worker, poller, wavfiles>>

(***************************************************************************)
(* properties: the audio selection changes                                 *)
(***************************************************************************)
\* on_audio_filepath_changed / on_vse_strip_changed / on_audio_source_changed
AudioChanged(p) ==
    /\ UNCHANGED <<cancelled, outside>>
    /\ audio_filepath' = p
    /\ phoneme_data_cached' = FALSE
    /\ has_phoneme_data' = FALSE
    /\ phoneme_data_cache' = NoData
    /\ last' = Report("set_audio", "", "", "", NoJob)
    /\ UNCHANGED <<audio_analyzing, texts, cls, njobs, worker, poller, wavfiles>>

\* The wall clock passes 900 s since the recorded _start_time.
TimePasses ==
    /\ UNCHANGED <<cancelled, outside>>
    /\ cls._start_time = "fresh"
    /\ cls' = [cls EXCEPT !._start_time = "over900"]
    /\ UNCHANGED <<props, phoneme_data_cache, texts, njobs, worker, poller, wavfiles, last>>

(***************************************************************************)
(* The worker: analyze_thread and LocalPhonemeProvider                     *)
(***************************************************************************)
\* progress_callback
progress_callback(c, percent, message) ==
    [c EXCEPT !._progress_percent = percent, !._progress_message = message]

\* LocalPhonemeProvider.is_available; version_ok: "tool --version" exits with 0
is_available(tool_path, version_ok) ==
    tool_path # "" /\ ToolExists(tool_path) /\ version_ok

\* An "except Exception" that stores nothing.
ExceptResult_Nothing(message) == NoResult

\* analyze_thread's "except Exception": the result stored for an error
ExceptResult(message) == Failure("Analysis failed: " \o message)

\* A "finally" that removes nothing.
Cleanup_Nothing(w, files) == files

\* extract_phonemes' "finally": the converted file is removed if it exists
Cleanup(w, files) ==
    IF w.wav_path # w.audio_path /\ w.wav_path \in files
    THEN files \ {w.wav_path}
    ELSE files

\* extract_phonemes raises exc(message) with worker record w and class state c.
Raise(j, w, c, exc, message) ==
    /\ worker' = [worker EXCEPT ![j] =
                     [w EXCEPT !.pc = IF w.threaded THEN "finishing" ELSE "returned",
                               !.raised = exc, !.cause = message,
                               !.wrote = IF w.threaded THEN ExceptResult(message)
                                         ELSE NoResult]]
    /\ cls' = IF w.threaded THEN [c EXCEPT !._result = ExceptResult(message)] ELSE c

\* analyze_thread after extract_phonemes returned: the result it stores
ValidatedResult(lipsync_data) ==
    IF lipsync_data = NoData THEN Failure("Rhubarb returned no data")
    ELSE IF lipsync_data.phonemes = <<>> THEN Failure("No phonemes extracted from audio")
    ELSE Success(lipsync_data)

\* extract_phonemes returns lipsync_data; analyze_thread validates and stores it.
Return(j, w, c, lipsync_data) ==
    /\ worker' = [worker EXCEPT ![j] =
                     [w EXCEPT !.pc = IF w.threaded THEN "finishing" ELSE "returned",
                               !.returned = lipsync_data,
                               !.wrote = IF w.threaded THEN ValidatedResult(lipsync_data)
                                         ELSE NoResult]]
    /\ cls' = IF ~w.threaded THEN c
              ELSE IF ValidatedResult(lipsync_data).ok
              THEN [progress_callback(c, 100, "Done") EXCEPT
                       !._result = ValidatedResult(lipsync_data)]
              ELSE [c EXCEPT !._result = ValidatedResult(lipsync_data)]

\* analyze_thread up to the call of extract_phonemes
WStart(j, version_ok) ==
    /\ UNCHANGED <<cancelled, outside>>
    /\ worker[j].pc = "start"
    /\    LET w == [worker[j] EXCEPT !.spawned =
                       IF ToolExists(worker[j].tool_path) THEN @ \cup {"version"} ELSE @]
              c == [cls EXCEPT !._start_time = "fresh"]
          IN  IF ~is_available(w.tool_path, version_ok)
              THEN /\ worker' = [worker EXCEPT ![j] =
                                    [w EXCEPT !.pc = "finishing",
                                              !.cause = "Rhubarb not available",
                                              !.wrote = Failure("Rhubarb not available")]]
                   /\ cls' = [c EXCEPT !._result = Failure("Rhubarb not available")]
              ELSE /\ worker' = [worker EXCEPT ![j] = [w EXCEPT !.pc = "extract"]]
                   /\ cls' = progress_callback(c, 0, "Starting phoneme extraction...")
    /\ UNCHANGED <<props, phoneme_data_cache, texts, njobs, poller, wavfiles, last>>

\* _run_rhubarb up to Popen; popen_ok: the executable could be started
RunRhubarb(j, w, c, files, popen_ok) ==
    IF popen_ok
    THEN /\ worker' = [worker EXCEPT ![j] =
                          [w EXCEPT !.pc = "communicate", !.proc = "running",
                                    !.spawned = @ \cup {"rhubarb"}]]
         /\ cls' = progress_callback(c, 0, "Starting Rhubarb analysis...")
         /\ wavfiles' = files
    ELSE /\ Raise(j, w, progress_callback(c, 0, "Starting Rhubarb analysis..."),
                  "ExtractionError", "Phoneme extraction failed: cannot execute")
         /\ wavfiles' = Cleanup(w, files)

\* extract_phonemes: validation, tool checks, and the start of the tool for WAV input
WExtract(j, popen_ok) ==
    /\ UNCHANGED <<cancelled, outside>>
    /\ worker[j].pc = "extract"
    /\ LET w == [worker[j] EXCEPT !.wav_path = worker[j].audio_path] IN
       IF ~validate_audio(w.audio_path)
       THEN /\ Raise(j, w, cls, "AudioFileError", "Audio file not found or invalid")
            /\ UNCHANGED wavfiles
       ELSE IF w.tool_path = ""
       THEN /\ Raise(j, w, cls, "ExtractionError", "No phoneme extraction tool configured")
            /\ UNCHANGED wavfiles
       ELSE IF ~ToolExists(w.tool_path)
       THEN /\ Raise(j, w, cls, "ExtractionError", "Phoneme extraction tool not found")
            /\ UNCHANGED wavfiles
       ELSE IF Ext(w.audio_path) # ".wav"
       THEN /\ worker' = [worker EXCEPT ![j] = [w EXCEPT !.pc = "convert"]]
            /\ UNCHANGED <<cls, wavfiles>>
       ELSE RunRhubarb(j, w, cls, wavfiles, popen_ok)
    /\ UNCHANGED <<props, phoneme_data_cache, texts, njobs, poller, last>>

\* convert_audio_to_wav: how the converter ends
ConvertOutcomes == {"no ffmpeg", "failed", "failed, partial output", "converted"}

\* extract_phonemes: conversion of non-WAV input, then the start of the tool
WConvert(j, outcome, popen_ok) ==
    /\ UNCHANGED <<cancelled, outside>>
    /\ worker[j].pc = "convert"
    /\    LET w == [worker[j] EXCEPT !.spawned = @ \cup {"ffmpeg"}]
              output_path == ConvertedPath(w.audio_path)
          IN  IF outcome = "converted"
              THEN RunRhubarb(j, [w EXCEPT !.wav_path = output_path],
                              progress_callback(cls, 0, "Processing audio file..."),
                              wavfiles \cup {output_path}, popen_ok)
              ELSE /\ Raise(j, w, cls, "ExtractionError", "Cannot process audio format")
                   /\ wavfiles' = IF outcome = "failed, partial output"
                                  THEN wavfiles \cup {output_path}
                                  ELSE wavfiles
    /\ UNCHANGED <<props, phoneme_data_cache, texts, njobs, poller, last>>

(***************************************************************************)
(* The tool subprocess                                                     *)
(***************************************************************************)
\* What the tool may have written to stdout when it exits.
Payloads ==
    {"", "not json", "{ truncated", "{}", "{mouthCues: []}", "{mouthCues: [{}]}",
     "{mouthCues: [X, A]}"}

\* Exit code and stdout of a tool run.
ToolExits ==
    {<<0, out>> : out \in Payloads} \cup {<<1, "">>, <<1, "{mouthCues: [X, A]}">>}

\* The machine-readable events on stderr.
StderrEvents == {"start", "progress", "failure", "success"}

\* The value of a progress event, in thousandths.
ProgressValue == 295

\* int(value * 100)
ProgressPercent(value) == (value * 100) \div 1000

\* The tool process ends by itself.
ToolExit(j, e) ==
    /\ UNCHANGED <<cancelled, outside>>
    /\ worker[j].proc = "running"
    /\    worker' = [worker EXCEPT ![j] =
                        [@ EXCEPT !.proc = "exited", !.returncode = e[1],
                                  !.stdout_data = e[2]]]
    /\ UNCHANGED <<props, phoneme_data_cache, texts, cls, njobs, poller, wavfiles, last>>

\* A monitor that ends the job with a failure on a failure event.
MonitorStderr_FailureEnds(j, event_type) ==
    /\ UNCHANGED <<cancelled, outside>>
    /\ worker[j].pc = "communicate"
    /\ worker[j].proc = "running"
    /\    /\ worker' = [worker EXCEPT ![j] =
                            IF event_type = "failure"
                            THEN [@ EXCEPT !.stderr_lines = event_type, !.pc = "finishing",
                                           !.wrote = Failure("Rhubarb ERROR")]
                            ELSE [@ EXCEPT !.stderr_lines = event_type]]
          /\ cls' = CASE event_type = "progress" ->
                           progress_callback(cls, ProgressPercent(ProgressValue), "Processing")
                      [] event_type = "start" ->
                           progress_callback(cls, 0, "Loading audio file...")
                      [] event_type = "success" ->
                           progress_callback(cls, 100, "Analysis complete!")
                      [] OTHER -> [cls EXCEPT !._result = Failure("Rhubarb ERROR")]
    /\ UNCHANGED <<props, phoneme_data_cache, texts, njobs, poller, wavfiles, last>>

\* monitor_stderr: one line of the tool's stderr
MonitorStderr(j, event_type) ==
    /\ UNCHANGED <<cancelled, outside>>
    /\ worker[j].pc = "communicate"
    /\ worker[j].proc = "running"
    /\    /\ worker' = [worker EXCEPT ![j] = [@ EXCEPT !.stderr_lines = event_type]]
          /\ cls' = CASE event_type = "progress" ->
                           progress_callback(cls, ProgressPercent(ProgressValue), "Processing")
                      [] event_type = "start" ->
                           progress_callback(cls, 0, "Loading audio file...")
                      [] event_type = "success" ->
                           progress_callback(cls, 100, "Analysis complete!")
                      [] OTHER -> cls
    /\ UNCHANGED <<props, phoneme_data_cache, texts, njobs, poller, wavfiles, last>>

\* The checks without the look at the exit code.
CheckResult_IgnoreExitCode(returncode, stdout_data, stderr_lines) ==
    IF stdout_data = "" \/ stdout_data = "not json"
    THEN <<FALSE, "Rhubarb didn't return JSON">>
    ELSE <<TRUE, "">>

\* _run_rhubarb after communicate returned: <<ok, error message>>
CheckResult(returncode, stdout_data, stderr_lines) ==
    IF returncode # 0
    THEN <<FALSE, "Rhubarb failed with code: " \o
                  (IF stderr_lines # "" THEN stderr_lines
                   ELSE IF stdout_data # "" THEN stdout_data
                   ELSE "Unknown error")>>
    ELSE IF stdout_data = "" \/ stdout_data = "not json"
    THEN <<FALSE, "Rhubarb didn't return JSON">>
    ELSE <<TRUE, "">>

\* The number of mouthCues of a payload that json.loads accepts.
NumCues(output) ==
    CASE output = "{mouthCues: [X, A]}" -> 2
      [] output = "{mouthCues: [{}]}" -> 1
      [] OTHER -> 0

\* The mouthCues of the valid payload: X from 0.0 s, A from 0.25 s.
MouthCues(output) ==
    IF output = "{mouthCues: [X, A]}"
    THEN <<[start |-> 0, value |-> "X"], [start |-> 250, value |-> "A"]>>
    ELSE <<>>

\* Cues that all last 0.1 s
PhonemesOf_FixedLength(mouthCues) ==
    [i \in 1..Len(mouthCues) |->
        PhonemeData(mouthCues[i].value, mouthCues[i].start, mouthCues[i].start + 100, 1000)]

\* The loop of _parse_rhubarb_output over data["mouthCues"]: a cue ends where
\* the next one starts, the last one after 0.1 s.
PhonemesOf(mouthCues) ==
    [i \in 1..Len(mouthCues) |->
        PhonemeData(mouthCues[i].value, mouthCues[i].start,
                    IF i < Len(mouthCues) THEN mouthCues[i + 1].start
                    ELSE mouthCues[i].start + 100,
                    1000)]

\* _parse_rhubarb_output after json.loads has found well-formed mouthCues:
\* <<ok, error message, phonemes>>
parse_mouth_cues(mouthCues) ==
    IF Len(mouthCues) = 0 THEN <<FALSE, "No phonemes extracted from audio", <<>>>>
    ELSE <<TRUE, "", PhonemesOf(mouthCues)>>

\* _parse_rhubarb_output: <<ok, error message, phonemes>>
parse_rhubarb_output(output) ==
    IF output = "{ truncated" THEN <<FALSE, "Failed to parse Rhubarb output", <<>>>>
    ELSE IF output = "{}"
        THEN <<FALSE, "Invalid Rhubarb output format - no mouthCues found", <<>>>>
    ELSE IF output = "{mouthCues: [{}]}" THEN <<FALSE, "'start'", <<>>>>
    ELSE parse_mouth_cues(MouthCues(output))

\* A call of _parse_rhubarb_output with the payload held in "last": the
\* LipSyncData it returns or the ExtractionError it raises
ParseCues ==
    /\ last.op = "parse_input"
    /\ last' = [last EXCEPT !.op = "parse",
                            !.ok = parse_mouth_cues(last.mouthCues)[1],
                            !.text = parse_mouth_cues(last.mouthCues)[2],
                            !.data = IF parse_mouth_cues(last.mouthCues)[1]
                                     THEN MkData(NoJob, "a.wav",
                                                 parse_mouth_cues(last.mouthCues)[3])
                                     ELSE NoData]
    /\ UNCHANGED <<props, phoneme_data_cache, texts, cls, njobs, worker, poller,
                   wavfiles, cancelled, outside>>

\* The TimeoutExpired branch without kill() and communicate().
KillAndReap_Neither(proc) == proc

\* The process after the TimeoutExpired branch: kill(), then communicate().
KillAndReap(proc) == "reaped"

\* communicate returns: the checks, the parse, the cleanup, and the result
WCommunicateReturn(j) ==
    /\ UNCHANGED <<cancelled, outside>>
    /\ worker[j].pc = "communicate"
    /\ worker[j].proc = "exited"
    /\ LET w == [worker[j] EXCEPT !.proc = "reaped"]
           checked == CheckResult(w.returncode, w.stdout_data, w.stderr_lines)
           parsed == parse_rhubarb_output(w.stdout_data)
           c == progress_callback(cls, 100, "Parsing results...")
       IN  IF ~checked[1]
           THEN Raise(j, w, cls, "ExtractionError",
                      "Phoneme extraction failed: " \o checked[2])
           ELSE IF ~parsed[1]
           THEN Raise(j, w, c, "ExtractionError",
                      "Phoneme extraction failed: " \o parsed[2])
           ELSE Return(j, w, c, MkData(j, w.audio_path, parsed[3]))
    /\ wavfiles' = Cleanup(worker[j], wavfiles)
    /\ UNCHANGED <<props, phoneme_data_cache, texts, njobs, poller, last>>

\* communicate(timeout=600) raises TimeoutExpired: the tool is still running
WCommunicateTimeout(j) ==
    /\ UNCHANGED <<cancelled, outside>>
    /\ worker[j].pc = "communicate"
    /\ worker[j].proc = "running"
    /\ Raise(j, [worker[j] EXCEPT !.proc = KillAndReap(@), !.timed_out = TRUE], cls,
             "ExtractionError",
             "Phoneme extraction failed: Rhubarb timed out after 10 minutes")
    /\ wavfiles' = Cleanup(worker[j], wavfiles)
    /\ UNCHANGED <<props, phoneme_data_cache, texts, njobs, poller, last>>

\* analyze_thread's "finally", then the thread ends
WExit(j) ==
    /\ UNCHANGED <<cancelled, outside>>
    /\ worker[j].pc = "finishing"
    /\ cls' = IF cls._result = NoResult
              THEN [cls EXCEPT !._result = Failure("Thread ended unexpectedly")]
              ELSE cls
    /\ worker' = [worker EXCEPT ![j] = [WorkerInit EXCEPT !.pc = "dead"]]
    /\ UNCHANGED <<props, phoneme_data_cache, texts, njobs, poller, wavfiles, last>>

(***************************************************************************)
(* The store: calls of phoneme_storage, the delete operator, and the files *)
(* and text blocks changing under it                                       *)
(***************************************************************************)
\* What a call of a storage function leaves in "last": its arguments and
\* what it returned.
StoreReport(op, audio_path, ok, data, text) ==
    [Report(op, "", "", text, NoJob) EXCEPT !.rhubarb = ""] @@
    [path |-> audio_path, ok |-> ok, data |-> data]

\* save_phoneme_data(audio_path, lipsync_data) is called.
StoreSave(audio_path, lipsync_data) ==
    /\ texts' = save_phoneme_data(audio_path, lipsync_data)
    /\ last' = StoreReport("save", audio_path, get_audio_hash(audio_path) # "",
                           lipsync_data,
                           IF get_audio_hash(audio_path) # "" THEN "Saved phoneme data"
                           ELSE "Failed to hash audio file")
    /\ UNCHANGED <<props, phoneme_data_cache, cls, njobs, worker, poller, wavfiles,
                   cancelled, outside>>

\* load_phoneme_data(audio_path) is called.
StoreLoad(audio_path) ==
    /\ last' = StoreReport("load", audio_path, load_phoneme_data(audio_path)[1],
                           load_phoneme_data(audio_path)[2],
                           load_phoneme_data(audio_path)[3])
    /\ UNCHANGED <<props, phoneme_data_cache, texts, cls, njobs, worker, poller, wavfiles,
                   cancelled, outside>>

\* LIPKIT_OT_delete_phoneme_data.execute (the class registered last)
DeleteOperator ==
    /\ IF audio_filepath = ""
       THEN /\ last' = Report("delete", "CANCELLED", "ERROR", "No audio file selected", NoJob)
            /\ UNCHANGED <<phoneme_data_cached, has_phoneme_data, phoneme_data_cache, texts>>
       ELSE /\ texts' = delete_phoneme_data(audio_filepath)[3]
            /\ IF delete_phoneme_data(audio_filepath)[1]
               THEN /\ phoneme_data_cached' = FALSE
                    /\ has_phoneme_data' = FALSE
                    /\ phoneme_data_cache' = NoData
                    /\ last' = Report("delete", "FINISHED", "INFO",
                                      delete_phoneme_data(audio_filepath)[2], NoJob)
               ELSE /\ last' = Report("delete", "FINISHED", "WARNING",
                                      delete_phoneme_data(audio_filepath)[2], NoJob)
                    /\ UNCHANGED <<phoneme_data_cached, has_phoneme_data,
                                   phoneme_data_cache>>
    /\ UNCHANGED <<audio_analyzing, audio_filepath, cls, njobs, worker, poller, wavfiles,
                   cancelled, outside>>

\* The audio file audio_path is overwritten with other bytes.
ContentChanged(audio_path, bytes) ==
    /\ audio_path \in DOMAIN content
    /\ content[audio_path] # bytes
    /\ content' = [content EXCEPT ![audio_path] = bytes]
    /\ UNCHANGED scene
    /\ UNCHANGED <<props, phoneme_data_cache, texts, cls, njobs, worker, poller, wavfiles,
                   cancelled, last>>

\* The user edits the text block named after audio_hash in the text editor:
\* the hash recorded in the document is replaced, or the text is no JSON any more.
TextEdited(audio_hash, recorded) ==
    /\ texts[audio_hash] \notin {NoText, NotJson}
    /\ texts' = [texts EXCEPT ![audio_hash] =
                    IF recorded = "" THEN NotJson
                    ELSE [@ EXCEPT !.audio_hash = json_str(recorded)]]
    /\ texts' # texts
    /\ UNCHANGED <<props, phoneme_data_cache, cls, njobs, worker, poller, wavfiles,
                   cancelled, last, outside>>

(***************************************************************************)
(* Animation: the mapping, AnimationEngine.generate, the controller's      *)
(* keyframes and the drivers of the target object                          *)
(***************************************************************************)
\* Python's round on a number given in thousandths: to the nearest integer,
\* a tie to the even one.
round(x) ==
    LET q == x \div 1000
        r == x % 1000
    IN IF r < 500 THEN q
       ELSE IF r > 500 THEN q + 1
       ELSE IF q % 2 = 0 THEN q ELSE q + 1

\* A conversion that cuts the fraction off
time_to_frame_Truncated(time_seconds, fps) == (time_seconds * fps) \div 1000

\* audio_utils.time_to_frame; time_seconds in thousandths of a second
time_to_frame(time_seconds, fps) == round(time_seconds * fps)

\* VisemeMapper.STANDARD_VISEMES, in the order of the dict
STANDARD_VISEMES ==
    << <<"REST", {"REST", "SIL", "SP"}>>,
       <<"AH", {"AA", "AE", "AH", "AW", "AY", "K", "G", "HH", "NG"}>>,
       <<"EE", {"IH", "IY", "EH", "EY", "Y"}>>,
       <<"OH", {"AO", "OW", "OY", "ER", "R"}>>,
       <<"OO", {"UH", "UW", "W"}>>,
       <<"M", {"M", "B", "P"}>>,
       <<"F", {"F", "V"}>>,
       <<"L", {"L", "D", "T", "N", "DH", "TH"}>>,
       <<"S", {"S", "Z", "SH", "ZH", "CH", "JH"}>> >>

\* The symbols with a lower-case letter that occur, with their upper case
UpperCase ==
    "rest" :> "REST" @@ "sil" :> "SIL" @@ "sp" :> "SP" @@ "aa" :> "AA" @@
    "ae" :> "AE" @@ "ah" :> "AH" @@ "aw" :> "AW" @@ "ay" :> "AY" @@ "k" :> "K" @@
    "g" :> "G" @@ "hh" :> "HH" @@ "ng" :> "NG" @@ "ih" :> "IH" @@ "iy" :> "IY" @@
    "eh" :> "EH" @@ "ey" :> "EY" @@ "y" :> "Y" @@ "ao" :> "AO" @@ "ow" :> "OW" @@
    "oy" :> "OY" @@ "er" :> "ER" @@ "r" :> "R" @@ "uh" :> "UH" @@ "uw" :> "UW" @@
    "w" :> "W" @@ "m" :> "M" @@ "b" :> "B" @@ "p" :> "P" @@ "f" :> "F" @@ "v" :> "V" @@
    "l" :> "L" @@ "d" :> "D" @@ "t" :> "T" @@ "n" :> "N" @@ "dh" :> "DH" @@
    "th" :> "TH" @@ "s" :> "S" @@ "z" :> "Z" @@ "sh" :> "SH" @@ "zh" :> "ZH" @@
    "ch" :> "CH" @@ "jh" :> "JH" @@ "Sh" :> "SH" @@ "Aa" :> "AA" @@ "x" :> "X" @@
    "oo" :> "OO"

\* str.upper
upper(symbol) == IF symbol \in DOMAIN UpperCase THEN UpperCase[symbol] ELSE symbol

\* A lookup that takes the symbol as it is written
phoneme_to_viseme_CaseSensitive(phoneme) ==
    LET found == {k \in DOMAIN STANDARD_VISEMES : phoneme \in STANDARD_VISEMES[k][2]}
    IN IF found = {} THEN "REST"
       ELSE STANDARD_VISEMES[CHOOSE k \in found : \A m \in found : k <= m][1]

\* VisemeMapper.phoneme_to_viseme: the first class whose list has the symbol
\* in upper case, REST when none has
phoneme_to_viseme(phoneme) ==
    LET found == {k \in DOMAIN STANDARD_VISEMES :
                     upper(phoneme) \in STANDARD_VISEMES[k][2]}
    IN IF found = {} THEN "REST"
       ELSE STANDARD_VISEMES[CHOOSE k \in found : \A m \in found : k <= m][1]

viseme_order == <<"REST", "AH", "EE", "OH", "OO", "M", "F", "L", "S">>

\* VisemeMapper.get_viseme_index
get_viseme_index(viseme) ==
    IF \E k \in DOMAIN viseme_order : viseme_order[k] = upper(viseme)
    THEN (CHOOSE k \in DOMAIN viseme_order : viseme_order[k] = upper(viseme)) - 1
    ELSE 0

\* A call of phoneme_to_viseme and of get_viseme_index on its result, as
\* _build_phoneme_index_map makes them, with the symbol held in "last"
ReduceToViseme ==
    /\ last.op = "viseme_input"
    /\ last' = [last EXCEPT !.op = "viseme",
                            !.viseme = phoneme_to_viseme(last.phoneme),
                            !.index = get_viseme_index(phoneme_to_viseme(last.phoneme))]
    /\ UNCHANGED <<props, phoneme_data_cache, texts, cls, njobs, worker, poller,
                   wavfiles, cancelled, outside>>

\* A dict with str keys, as the sequence of its items in insertion order.
DictHas(d, key) == \E k \in DOMAIN d : d[k][1] = key

DictGet(d, key, default) ==
    IF DictHas(d, key) THEN d[CHOOSE k \in DOMAIN d : d[k][1] = key][2] ELSE default

DictSet(d, key, value) ==
    IF DictHas(d, key)
    THEN [k \in DOMAIN d |-> IF d[k][1] = key THEN <<key, value>> ELSE d[k]]
    ELSE Append(d, <<key, value>>)

\* PhonemeMapping.add_mapping
add_mapping(self, phoneme, phoneme_index, target_name) ==
    [self EXCEPT !.mappings =
        DictSet(@, phoneme, [index |-> phoneme_index, target |-> target_name])]

\* PhonemeMapping() with the fields LIPKIT_OT_generate.execute sets
PhonemeMapping(visual_system, phoneme_set) ==
    [mappings |-> <<>>, phoneme_set |-> phoneme_set, visual_system |-> visual_system]

\* An item of props.phoneme_mappings
Item(phoneme, phoneme_index, target_object, target_property, target_name, enabled) ==
    [phoneme |-> phoneme, phoneme_index |-> phoneme_index,
     target_object |-> target_object, target_property |-> target_property,
     target_name |-> target_name, enabled |-> enabled]

\* The target LIPKIT_OT_generate.execute takes from an item; "" for None
target_to_use(item) ==
    IF item.target_object /\ item.target_property # "" THEN item.target_property
    ELSE IF item.target_name # "" THEN item.target_name
    ELSE ""

\* The loop of LIPKIT_OT_generate.execute over props.phoneme_mappings
RECURSIVE AddItems(_, _)
AddItems(mapping, items) ==
    IF items = <<>> THEN mapping
    ELSE AddItems(IF Head(items).enabled /\ target_to_use(Head(items)) # ""
                  THEN add_mapping(mapping, Head(items).phoneme,
                                   Head(items).phoneme_index, target_to_use(Head(items)))
                  ELSE mapping,
                  Tail(items))

\* _build_phoneme_index_map for the arpabet phoneme set: every symbol of the
\* timeline goes through the viseme table
build_phoneme_index_map_Visemes(lipsync_data, mapping) ==
    LET RECURSIVE Cues(_, _)
        Cues(d, i) ==
            IF i > Len(lipsync_data.phonemes) THEN d
            ELSE Cues(DictSet(d, lipsync_data.phonemes[i].phoneme,
                              get_viseme_index(
                                 phoneme_to_viseme(lipsync_data.phonemes[i].phoneme))),
                      i + 1)
    IN Cues(<<>>, 1)

\* AnimationEngine._build_phoneme_index_map: the dict phoneme -> index
build_phoneme_index_map(lipsync_data, mapping) ==
    IF mapping.phoneme_set = "arpabet"
    THEN build_phoneme_index_map_Visemes(lipsync_data, mapping)
    ELSE [k \in DOMAIN mapping.mappings |->
             <<mapping.mappings[k][1], mapping.mappings[k][2].index>>]

\* The frame generate computes for cue i
FrameOf(lipsync_data, i, start_frame, fps) ==
    start_frame + time_to_frame(lipsync_data.phonemes[i].start_time, fps)

\* A frame_data that keeps the first cue of a frame
frame_data_FirstWins(lipsync_data, phoneme_to_index, start_frame, fps) ==
    [f \in {FrameOf(lipsync_data, i, start_frame, fps) : i \in DOMAIN lipsync_data.phonemes}
       |-> LET at == {i \in DOMAIN lipsync_data.phonemes :
                         FrameOf(lipsync_data, i, start_frame, fps) = f}
               i == CHOOSE i \in at : \A m \in at : i <= m
           IN DictGet(phoneme_to_index, lipsync_data.phonemes[i].phoneme, 0)]

\* frame_data of generate: frame -> index, a later cue replacing an earlier
\* one at the same frame
frame_data(lipsync_data, phoneme_to_index, start_frame, fps) ==
    [f \in {FrameOf(lipsync_data, i, start_frame, fps) : i \in DOMAIN lipsync_data.phonemes}
       |-> LET at == {i \in DOMAIN lipsync_data.phonemes :
                         FrameOf(lipsync_data, i, start_frame, fps) = f}
               i == CHOOSE i \in at : \A m \in at : m <= i
           IN DictGet(phoneme_to_index, lipsync_data.phonemes[i].phoneme, 0)]

\* The last frame of a non-empty frame_data
LastFrame(fd) == CHOOSE f \in DOMAIN fd : \A g \in DOMAIN fd : g <= f

FirstFrame(fd) == CHOOSE f \in DOMAIN fd : \A g \in DOMAIN fd : f <= g

\* LipSyncController.add_keyframe for every item of frame_data:
\* keyframe_insert puts a key at the frame or replaces the one there.
add_keyframes(old, fd) ==
    [f \in DOMAIN old \cup DOMAIN fd |-> IF f \in DOMAIN fd THEN fd[f] ELSE old[f]]

\* The variable create_driver adds to a driver
PhonemeVar == [name |-> "phoneme", type |-> "SINGLE_PROP", data_path |-> "phoneme_index"]

\* A driver whose expression compares with the next index
create_driver_OffByOne(drv, phoneme_index, layer_name, blend_range) ==
    [drv EXCEPT ![layer_name] =
        [expression |-> IF blend_range > 0
                        THEN <<"blend", phoneme_index + 1, blend_range>>
                        ELSE <<"switch", phoneme_index + 1>>,
         variables |-> Append(@.variables, PhonemeVar)]]

\* GreasePencilLayerSystem.create_driver / ShapeKeySystem.create_driver for a
\* layer the target has: driver_add returns the driver the property has
\* already or a new one; a variable is added; the expression is set.
\* blend_range in thousandths.
create_driver(drv, phoneme_index, layer_name, blend_range) ==
    [drv EXCEPT ![layer_name] =
        [expression |-> IF blend_range > 0
                        THEN <<"blend", phoneme_index, blend_range>>
                        ELSE <<"switch", phoneme_index>>,
         variables |-> Append(@.variables, PhonemeVar)]]

\* The value of a driver's expression, in thousandths, when the variable
\* phoneme reads the value given:
\*   "1.0 if phoneme == i else 0.0"
\*   "max(0.0, 1.0 - abs(phoneme - i) / r)"
Evaluate(driver, phoneme) ==
    LET e == driver.expression
        abs == IF phoneme >= e[2] THEN phoneme - e[2] ELSE e[2] - phoneme
    IN IF e[1] = "switch" THEN (IF phoneme = e[2] THEN 1000 ELSE 0)
       ELSE IF 1000 - (abs * 1000000) \div e[3] > 0
            THEN 1000 - (abs * 1000000) \div e[3]
            ELSE 0

\* The first key of the dict phoneme_to_index that has the index
FirstPhoneme(phoneme_to_index, index) ==
    LET first == CHOOSE k \in DOMAIN phoneme_to_index :
                    /\ phoneme_to_index[k][2] = index
                    /\ \A m \in DOMAIN phoneme_to_index :
                          phoneme_to_index[m][2] = index => k <= m
    IN phoneme_to_index[first][1]

\* The <<index, target_name>> pairs _create_drivers calls create_driver with:
\* for every index of phoneme_to_index the target of the first phoneme that
\* has it, when the mapping holds that phoneme with a target.
DriverTargets(mapping, phoneme_to_index) ==
    {<<phoneme_to_index[k][2],
       DictGet(mapping.mappings, FirstPhoneme(phoneme_to_index, phoneme_to_index[k][2]),
               [index |-> 0, target |-> ""]).target>> :
        k \in {k \in DOMAIN phoneme_to_index :
                 LET phoneme == FirstPhoneme(phoneme_to_index, phoneme_to_index[k][2])
                 IN /\ DictHas(mapping.mappings, phoneme)
                    /\ DictGet(mapping.mappings, phoneme,
                               [index |-> 0, target |-> ""]).target # ""}}

\* A failure for one target that undoes the drivers made before it
CreateForIndex_FailureUndoes(drv, mapping, phoneme_to_index, index) ==
    LET phoneme == FirstPhoneme(phoneme_to_index, index)
        target_name == DictGet(mapping.mappings, phoneme, [index |-> 0, target |-> ""]).target
    IN IF ~DictHas(mapping.mappings, phoneme) \/ target_name = "" THEN <<drv, 0>>
       ELSE IF target_name \notin Layers THEN <<drivers, 0>>
       ELSE <<create_driver(drv, index, target_name, 0), 1>>

\* What _create_drivers does for one index: <<drivers, 1 if a driver was made>>
CreateForIndex(drv, mapping, phoneme_to_index, index) ==
    LET first == CHOOSE k \in DOMAIN phoneme_to_index :
                    /\ phoneme_to_index[k][2] = index
                    /\ \A m \in DOMAIN phoneme_to_index :
                          phoneme_to_index[m][2] = index => k <= m
        phoneme == phoneme_to_index[first][1]
        target_name == DictGet(mapping.mappings, phoneme, [index |-> 0, target |-> ""]).target
    IN IF ~DictHas(mapping.mappings, phoneme) \/ target_name = "" THEN <<drv, 0>>
       ELSE IF mapping.visual_system \notin {"gp_layer", "shape_key"} THEN <<drv, 0>>
       ELSE IF target_name \notin Layers THEN <<drv, 0>>
       ELSE <<create_driver(drv, index, target_name, 0), 1>>

\* AnimationEngine._create_drivers: <<drivers afterwards, number created>>;
\* the indices are taken in ascending order, the order of a set of small ints
RECURSIVE create_drivers(_, _, _, _, _)
create_drivers(drv, mapping, phoneme_to_index, indices, n) ==
    IF indices = {} THEN <<drv, n>>
    ELSE LET index == CHOOSE i \in indices : \A m \in indices : i <= m
             r == CreateForIndex(drv, mapping, phoneme_to_index, index)
         IN create_drivers(r[1], mapping, phoneme_to_index, indices \ {index}, n + r[2])

\* What a call of generate leaves in "last": its arguments, the exception it
\* raised ("" for none) and the dict it returned.
GenReport(lipsync_data, mapping, start_frame, fps, use_nla, raised, results) ==
    Report("generate", "", "", raised, NoJob) @@
    [lipsync_data |-> lipsync_data, mapping |-> mapping, start_frame |-> start_frame,
     fps |-> fps, use_nla |-> use_nla, results |-> results]

\* The dict generate returns
Results(lipsync_data, phoneme_to_index, fd, start_frame, drivers_created) ==
    [success |-> TRUE,
     keyframes_created |-> Cardinality(DOMAIN fd),
     drivers_created |-> drivers_created,
     gp_keyframes_created |-> 0,
     start_frame |-> start_frame,
     end_frame |-> IF DOMAIN fd # {} THEN LastFrame(fd) ELSE start_frame,
     phoneme_count |-> Len(lipsync_data.phonemes),
     unique_phonemes |-> Cardinality({phoneme_to_index[k][2] : k \in DOMAIN phoneme_to_index}),
     output_mode |-> "3d_drivers"]

\* The strip track.strips.new makes of an action with the keyframes fd
Strip(fd, start_frame) ==
    [start |-> start_frame,
     end |-> start_frame + (IF LastFrame(fd) - FirstFrame(fd) > 1
                            THEN LastFrame(fd) - FirstFrame(fd) ELSE 1),
     keys |-> fd]

\* track.strips.new raises RuntimeError when the strip overlaps one of the track.
HasSpace(strip) ==
    \A k \in DOMAIN strips : strips[k].end <= strip.start \/ strip.end <= strips[k].start

MaxCalls == 2

\* AnimationEngine.generate(target_object, start_frame, fps, use_nla) of an
\* engine made with lipsync_data, mapping and the scene's controller; no
\* output layer is given (3D mode).
EngineGenerate(lipsync_data, mapping, start_frame, fps, use_nla) ==
    LET phoneme_to_index == build_phoneme_index_map(lipsync_data, mapping)
        fd == frame_data(lipsync_data, phoneme_to_index, start_frame, fps)
        made == create_drivers(drivers, mapping, phoneme_to_index,
                               {phoneme_to_index[k][2] : k \in DOMAIN phoneme_to_index}, 0)
    IN /\ ncalls < MaxCalls
       /\ ncalls' = ncalls + 1
       /\ control' = IF DOMAIN fd # {} THEN fd[LastFrame(fd)] ELSE control
       /\ IF use_nla
          THEN \* create_action: a new action becomes the active one
               /\ keys' = add_keyframes(<<>>, fd)
               /\ IF HasSpace(Strip(fd, start_frame))
                  THEN /\ strips' = Append(strips, Strip(fd, start_frame))
                       /\ drivers' = made[1]
                       /\ last' = GenReport(lipsync_data, mapping, start_frame, fps, use_nla,
                                            "",
                                            Results(lipsync_data, phoneme_to_index, fd,
                                                    start_frame, made[2]))
                  ELSE /\ UNCHANGED <<strips, drivers>>
                       /\ last' = GenReport(lipsync_data, mapping, start_frame, fps, use_nla,
                                            "RuntimeError", <<>>)
          ELSE /\ keys' = add_keyframes(keys, fd)
               /\ drivers' = made[1]
               /\ UNCHANGED strips
               /\ last' = GenReport(lipsync_data, mapping, start_frame, fps, use_nla, "",
                                    Results(lipsync_data, phoneme_to_index, fd,
                                            start_frame, made[2]))
       /\ UNCHANGED <<props, phoneme_data_cache, texts, cls, njobs, worker, poller,
                      wavfiles, cancelled, content>>

\* What LIPKIT_OT_generate.execute has made when it calls generate: the
\* engine's timeline and mapping and the arguments of the call
GenerateCall(items, phoneme_preset, start_frame, use_nla, min_hold_frames, merge_threshold) ==
    [lipsync_data |-> phoneme_data_cache,
     mapping |-> AddItems(PhonemeMapping("gp_layer", phoneme_preset), items),
     start_frame |-> start_frame, use_nla |-> use_nla, interpolation |-> "CONSTANT",
     min_hold_frames |-> min_hold_frames, merge_threshold |-> merge_threshold]

\* LIPKIT_OT_generate.execute with a controller and a target selected: the
\* checks, the mapping built from the items, and the call of generate with
\* the keywords interpolation, min_hold_frames and merge_threshold, which
\* generate does not take: TypeError, reported.  merge_threshold in
\* thousandths of a second.
GenerateOperator(items, phoneme_preset, start_frame, use_nla, min_hold_frames, merge_threshold) ==
    /\ last' = Report("generate_operator", "CANCELLED", "ERROR",
                      IF ~phoneme_data_cached THEN "No phoneme data - analyze audio first"
                      ELSE IF audio_filepath = "" THEN "No audio file available"
                      ELSE IF phoneme_data_cache = NoData
                      THEN "Phoneme data lost - analyze audio again"
                      ELSE "Generation failed: TypeError", NoJob)
                @@ [call |-> IF phoneme_data_cached /\ audio_filepath # ""
                                   /\ phoneme_data_cache # NoData
                             THEN <<GenerateCall(items, phoneme_preset, start_frame, use_nla,
                                                 min_hold_frames, merge_threshold)>>
                             ELSE <<>>]
    /\ UNCHANGED <<props, phoneme_data_cache, texts, cls, njobs, worker, poller,
                   wavfiles, cancelled, outside>>

\* create_driver is called for a layer of the target, with a blend range.
CreateDriver(phoneme_index, layer_name, blend_range) ==
    /\ ncalls < MaxCalls
    /\ ncalls' = ncalls + 1
    /\ drivers' = create_driver(drivers, phoneme_index, layer_name, blend_range)
    /\ last' = Report("create_driver", "", "", layer_name, NoJob)
    /\ UNCHANGED <<props, phoneme_data_cache, texts, cls, njobs, worker, poller,
                   wavfiles, cancelled, content, keys, strips, control>>

(***************************************************************************)
(* easing_utils: keyframes as a dict frame -> value, the sequence of its   *)
(* items in insertion order; values in hundredths                          *)
(***************************************************************************)
\* Python's round of the quotient n / d (n >= 0, d > 0): a tie to the even one
round_ratio(n, d) ==
    LET q == n \div d
        r == n % d
    IN IF 2 * r < d THEN q
       ELSE IF 2 * r > d THEN q + 1
       ELSE IF q % 2 = 0 THEN q ELSE q + 1

\* EasingCurve.get_easing_function(easing_type)(step / d), as the numerator
\* of a fraction with the denominator d^3; ease_in_out for an unknown name
easing_fn(easing_type, step, d) ==
    CASE easing_type = "ease_in" -> step * step * step
      [] easing_type = "ease_out" -> d * d * d - (d - step) * (d - step) * (d - step)
      [] easing_type = "smooth" -> step * d * d
      [] OTHER -> IF 2 * step < d THEN 4 * step * step * step
                  ELSE d * d * d - 4 * (d - step) * (d - step) * (d - step)

\* eased_frame of a step
eased_frame(start_frame, next_frame, step, d) ==
    round_ratio(start_frame * d + step * (next_frame - start_frame), d)

\* round(eased_value, 2) of a step, in hundredths
eased_value(start_index, next_index, easing_type, step, d) ==
    round_ratio(start_index * d * d * d
                   + (next_index - start_index) * easing_fn(easing_type, step, d),
                d * d * d)

\* A step that writes its keyframe whether or not the frame is taken
EaseStep_NoDuplicateCheck(eased, keyframe_data, start_frame, next_frame, easing_type, step, d) ==
    DictSet(eased, eased_frame(start_frame, next_frame, step, d),
            eased_value(DictGet(keyframe_data, start_frame, 0),
                        DictGet(keyframe_data, next_frame, 0), easing_type, step, d))

\* The body of the loop over the steps: "avoid duplicate frames"
EaseStep(eased, keyframe_data, start_frame, next_frame, easing_type, step, d) ==
    IF /\ ~DictHas(eased, eased_frame(start_frame, next_frame, step, d))
       /\ eased_frame(start_frame, next_frame, step, d) < next_frame
    THEN DictSet(eased, eased_frame(start_frame, next_frame, step, d),
                 eased_value(DictGet(keyframe_data, start_frame, 0),
                             DictGet(keyframe_data, next_frame, 0), easing_type, step, d))
    ELSE eased

\* for step in range(1, duration_int)
RECURSIVE EaseSteps(_, _, _, _, _, _, _)
EaseSteps(eased, keyframe_data, start_frame, next_frame, easing_type, step, d) ==
    IF step >= d THEN eased
    ELSE EaseSteps(EaseStep(eased, keyframe_data, start_frame, next_frame, easing_type,
                            step, d),
                   keyframe_data, start_frame, next_frame, easing_type, step + 1, d)

\* sorted(keyframe_data.keys())
RECURSIVE SortedSeq(_)
SortedSeq(S) ==
    IF S = {} THEN <<>>
    ELSE LET m == CHOOSE x \in S : \A y \in S : x <= y
         IN <<m>> \o SortedSeq(S \ {m})

\* for i in range(len(sorted_frames) - 1), from pair i on
RECURSIVE EasePairs(_, _, _, _, _, _)
EasePairs(eased, keyframe_data, sorted_frames, i, easing_type, d) ==
    IF i > Len(sorted_frames) - 1 THEN eased
    ELSE LET start_frame == sorted_frames[i]
             next_frame == sorted_frames[i + 1]
             start_index == DictGet(keyframe_data, start_frame, 0)
             next_index == DictGet(keyframe_data, next_frame, 0)
             started == DictSet(eased, start_frame, start_index)
             stepped == IF start_index # next_index
                        THEN EaseSteps(started, keyframe_data, start_frame, next_frame,
                                       easing_type, 1, d)
                        ELSE started
             ended == IF i = Len(sorted_frames) - 1
                      THEN DictSet(stepped, next_frame, next_index)
                      ELSE stepped
         IN EasePairs(ended, keyframe_data, sorted_frames, i + 1, easing_type, d)

\* apply_easing_to_keyframes; easing_duration in thousandths
apply_easing_to_keyframes(keyframe_data, easing_type, easing_duration) ==
    IF easing_duration < 1000 THEN keyframe_data
    ELSE IF Len(keyframe_data) < 2 THEN keyframe_data
    ELSE EasePairs(<<>>, keyframe_data,
                   SortedSeq({keyframe_data[k][1] : k \in DOMAIN keyframe_data}), 1,
                   easing_type, easing_duration \div 1000)

\* A call of apply_easing_to_keyframes with the arguments held in "last"
ApplyEasing ==
    /\ last.op = "easing_input"
    /\ last' = [last EXCEPT !.op = "apply_easing",
                            !.eased = apply_easing_to_keyframes(
                                         last.keyframe_data, last.easing_type,
                                         last.easing_duration)]
    /\ UNCHANGED <<props, phoneme_data_cache, texts, cls, njobs, worker, poller,
                   wavfiles, cancelled, outside>>

(***************************************************************************)
(* Specifications                                                          *)
(***************************************************************************)
\* The control thread: operators, the modal handlers, the update callbacks.
\* execute, called with the tool configuration (scene, preferences, auto)
Execute(sp, pp, ap) ==
    \/ ExecuteRejected(sp, pp, ap)
    \/ ExecuteInvalid(sp, pp, ap)
    \/ ExecuteCached(sp, pp, ap)
    \/ ExecuteNoTool(sp, pp, ap)
    \/ ExecuteStart(sp, pp, ap)

\* modal, called on the operator instance of job p
Modal(p) ==
    \/ ModalEsc(p)
    \/ ModalResultReady(p)
    \/ ModalThreadDied(p)
    \/ ModalTimeout(p)
    \/ ModalProgress(p)

ToolConfigs == ScenePaths \X PrefsPaths \X AutoPaths

\* The inputs of the system specification: an audio file that needs conversion;
\* a tool run that succeeds or prints malformed JSON (the worker specification
\* has the run that exits non-zero).
SysPaths == {"b.mp3"}

SysExits == {<<0, "{mouthCues: [X, A]}">>, <<0, "{ truncated">>}

SysEvents == {"progress"}

SysConvert == {"converted", "failed"}

\* No tool anywhere; a stale scene path with the bundled tool present.
SysConfigs == {<<"", "", "">>, <<"gone/rhubarb", "", "bin/rhubarb">>}

Next ==
    \/ \E cfg \in SysConfigs : Execute(cfg[1], cfg[2], cfg[3])
    \/ \E p \in Jobs : Modal(p)
    \/ \E p \in Jobs : OperatorCancel(p)
    \/ CancelAnalysis
    \/ TimePasses
    \/ \E a \in SysPaths : AudioChanged(a)
    \/ \E j \in Jobs, version_ok \in BOOLEAN : WStart(j, version_ok)
    \/ \E j \in Jobs : WExtract(j, TRUE)
    \/ \E j \in Jobs, outcome \in SysConvert : WConvert(j, outcome, TRUE)
    \/ \E j \in Jobs, e \in SysExits : ToolExit(j, e)
    \/ \E j \in Jobs, event_type \in SysEvents : MonitorStderr(j, event_type)
    \/ \E j \in Jobs : WCommunicateReturn(j)
    \/ \E j \in Jobs : WCommunicateTimeout(j)
    \/ \E j \in Jobs : WExit(j)

Spec == Init /\ [][Next]_vars

\* The worker alone, with every outcome of the converter and the tool: either
\* the thread execute has just started for a valid audio file, or a direct
\* call of extract_phonemes with any path and any tool path.
InitWorker ==
    /\ phoneme_data_cached = FALSE
    /\ has_phoneme_data = FALSE
    /\ phoneme_data_cache = NoData
    /\ texts = [h \in Hashes |-> NoText]
    /\ njobs = 1
    /\ wavfiles = {}
    /\ cancelled = {}
    /\ content = ContentInit
    /\ SceneInit
    /\ \/ /\ audio_filepath \in {"a.wav", "b.mp3"}
          /\ audio_analyzing = TRUE
          /\ cls = [ResetForStart(ClsInit) EXCEPT !._thread = 1]
          /\ worker = [j \in Jobs |->
                         IF j = 1
                         THEN [WorkerInit EXCEPT !.pc = "start",
                                                 !.audio_path = audio_filepath,
                                                 !.tool_path = "bin/rhubarb"]
                         ELSE WorkerInit]
          /\ poller = [j \in Jobs |->
                         IF j = 1 THEN [modal |-> TRUE, timer |-> TRUE] ELSE PollerInit]
          /\ last = [Report("execute", "RUNNING_MODAL", "INFO", "Analyzing...", 1)
                        EXCEPT !.rhubarb = "bin/rhubarb"]
       \/ /\ audio_filepath = ""
          /\ audio_analyzing = FALSE
          /\ cls = ClsInit
          /\ \E audio_path \in Paths, tool_path \in ToolPaths :
                worker = [j \in Jobs |->
                            IF j = 1
                            THEN [WorkerInit EXCEPT !.pc = "extract", !.threaded = FALSE,
                                                    !.audio_path = audio_path,
                                                    !.tool_path = tool_path]
                            ELSE WorkerInit]
          /\ poller = [j \in Jobs |-> PollerInit]
          /\ last = LastInit

NextWorker ==
    \/ \E j \in Jobs, version_ok \in BOOLEAN : WStart(j, version_ok)
    \/ \E j \in Jobs, popen_ok \in BOOLEAN : WExtract(j, popen_ok)
    \/ \E j \in Jobs, outcome \in ConvertOutcomes, popen_ok \in BOOLEAN :
          WConvert(j, outcome, popen_ok)
    \/ \E j \in Jobs, e \in ToolExits : ToolExit(j, e)
    \/ \E j \in Jobs, event_type \in StderrEvents : MonitorStderr(j, event_type)
    \/ \E j \in Jobs : WCommunicateReturn(j)
    \/ \E j \in Jobs : WCommunicateTimeout(j)
    \/ \E j \in Jobs : WExit(j)

SpecWorker == InitWorker /\ [][NextWorker]_vars

\* execute against every kind of audio path and every tool configuration, with
\* jobs that run to a successful end, are cancelled, or are left behind.
NextValidate ==
    \/ \E cfg \in ToolConfigs : Execute(cfg[1], cfg[2], cfg[3])
    \/ \E p \in Jobs : ModalEsc(p)
    \/ \E p \in Jobs : ModalResultReady(p)
    \/ \E p \in Jobs : ModalThreadDied(p)
    \/ \E a \in Paths : AudioChanged(a)
    \/ \E j \in Jobs : WStart(j, TRUE)
    \/ \E j \in Jobs : WExtract(j, TRUE)
    \/ \E j \in Jobs : WConvert(j, "converted", TRUE)
    \/ \E j \in Jobs : ToolExit(j, <<0, "{mouthCues: [X, A]}">>)
    \/ \E j \in Jobs : WCommunicateReturn(j)
    \/ \E j \in Jobs : WExit(j)

SpecValidate == Init /\ [][NextValidate]_vars

\* The timelines given to save_phoneme_data: what the tool's result parses
\* to, a timeline with one cue and no default value, and one without cues.
Timelines ==
    {MkData(1, "a.wav", parse_rhubarb_output("{mouthCues: [X, A]}")[3]),
     [phonemes |-> <<PhonemeData("B", 50, 1250, 500)>>, duration |-> 1250,
      sample_rate |-> 48000, language |-> "fr", phoneme_set |-> "preston_blair",
      metadata |-> EmptyDict],
     [phonemes |-> <<>>, duration |-> 0, sample_rate |-> 44100, language |-> "en",
      phoneme_set |-> "arpabet", metadata |-> EmptyDict]}

\* The paths storage is called with: two files and a path that cannot be read.
StorePaths == {"a.wav", "b.mp3", "missing.wav"}

\* b.mp3 is overwritten: with the bytes of a.wav, with new bytes, with its own.
StoreBytes == {"A", "B", "C"}

InitStore == Init /\ audio_analyzing = FALSE

NextStore ==
    \/ \E audio_path \in StorePaths, lipsync_data \in Timelines :
          StoreSave(audio_path, lipsync_data)
    \/ \E audio_path \in StorePaths : StoreLoad(audio_path)
    \/ DeleteOperator
    \/ \E a \in StorePaths \cup {""} : AudioChanged(a)
    \/ \E bytes \in StoreBytes : ContentChanged("b.mp3", bytes)
    \/ \E recorded \in {"", "h_c"} : TextEdited("h_a", recorded)

SpecStore == InitStore /\ [][NextStore]_vars

\* A timeline with the cues given
Timeline(phonemes) ==
    [phonemes |-> phonemes, duration |-> phonemes[Len(phonemes)].end_time,
     sample_rate |-> 44100, language |-> "en", phoneme_set |-> "rhubarb",
     metadata |-> EmptyDict]

\* The timelines generate is called with
AnimTimelines ==
    {Timeline(<<PhonemeData("A", 0, 500, 1000), PhonemeData("B", 500, 1000, 1000)>>),
     Timeline(<<PhonemeData("B", 100, 350, 1000)>>),
     Timeline(<<PhonemeData("A", 350, 500, 1000), PhonemeData("X", 500, 1250, 1000)>>)}

\* The lists of mapping items: A and B mapped and X mapped to a layer the
\* target does not have; A moved to another layer and B disabled; B without
\* a target; A and B with their own indices on the same layer.
ItemLists ==
    {<<Item("A", 1, TRUE, "LayerA", "", TRUE), Item("B", 2, FALSE, "", "LayerB", TRUE),
       Item("X", 3, FALSE, "", "Missing", TRUE)>>,
     <<Item("A", 1, TRUE, "LayerC", "", TRUE), Item("B", 2, FALSE, "", "LayerB", FALSE)>>,
     <<Item("A", 1, TRUE, "LayerA", "", TRUE), Item("B", 2, FALSE, "", "", TRUE)>>,
     <<Item("A", 1, TRUE, "LayerA", "", TRUE), Item("B", 2, TRUE, "LayerA", "", TRUE)>>}

\* The mappings LIPKIT_OT_generate.execute builds of them
Mappings ==
    {AddItems(PhonemeMapping("gp_layer", preset), items) :
        preset \in {"rhubarb", "arpabet"}, items \in ItemLists}

FpsValues == {24, 25}

StartFrames == {1, 20}

\* The values the controller's property is read at
ControlValues == 0..4

\* Blend ranges in thousandths: none, 0.5 and 2.0
BlendRanges == {0, 500, 2000}

\* A scene without animation, before or after an analysis
InitAnim ==
    /\ audio_analyzing = FALSE
    /\ \/ /\ phoneme_data_cached = FALSE /\ has_phoneme_data = FALSE
          /\ audio_filepath = "" /\ phoneme_data_cache = NoData
          /\ texts = [h \in Hashes |-> NoText]
       \/ /\ phoneme_data_cached = TRUE /\ has_phoneme_data = TRUE
          /\ audio_filepath = "b.mp3"
          /\ phoneme_data_cache
                = MkData(1, "b.mp3", parse_rhubarb_output("{mouthCues: [X, A]}")[3])
          /\ texts = [h \in Hashes |->
                         IF h = md5("B")
                         THEN json_dumps([audio_hash |-> h, audio_filename |-> "b.mp3",
                                          phoneme_data |-> to_dict(phoneme_data_cache)])
                         ELSE NoText]
    /\ cls = ClsInit
    /\ njobs = 0
    /\ worker = [j \in Jobs |-> WorkerInit]
    /\ poller = [j \in Jobs |-> PollerInit]
    /\ wavfiles = {}
    /\ cancelled = {}
    /\ last = LastInit
    /\ content = ContentInit
    /\ SceneInit

NextAnim ==
    \/ \E lipsync_data \in AnimTimelines, mapping \in Mappings, start_frame \in StartFrames,
          fps \in FpsValues, use_nla \in BOOLEAN :
          EngineGenerate(lipsync_data, mapping, start_frame, fps, use_nla)
    \/ \E items \in ItemLists : GenerateOperator(items, "rhubarb", 1, FALSE, 2, 40)
    \/ \E phoneme_index \in 1..2, layer_name \in {"LayerA", "LayerB"},
          blend_range \in BlendRanges :
          CreateDriver(phoneme_index, layer_name, blend_range)

SpecAnim == InitAnim /\ [][NextAnim]_vars

\* The lists of mapping items the drivers are created for: A and B mapped
\* and X mapped to a layer the target does not have; X mapped to a missing
\* layer before A, and the viseme M; A and B sharing an index.
DriverItemLists ==
    {<<Item("A", 1, TRUE, "LayerA", "", TRUE), Item("B", 2, FALSE, "", "LayerB", TRUE),
       Item("X", 3, FALSE, "", "Missing", TRUE)>>,
     <<Item("X", 1, FALSE, "", "Missing", TRUE), Item("A", 2, TRUE, "LayerA", "", TRUE),
       Item("M", 5, FALSE, "", "LayerB", TRUE)>>,
     <<Item("A", 1, TRUE, "LayerA", "", TRUE), Item("B", 1, FALSE, "", "LayerB", TRUE)>>}

DriverMappings ==
    {AddItems(PhonemeMapping("gp_layer", preset), items) :
        preset \in {"rhubarb", "arpabet"}, items \in DriverItemLists}

\* generate called on a scene without animation, directly and in NLA mode
NextDrivers ==
    \E lipsync_data \in AnimTimelines, mapping \in DriverMappings, use_nla \in BOOLEAN :
       EngineGenerate(lipsync_data, mapping, 1, 24, use_nla)

SpecDrivers == InitAnim /\ [][NextDrivers]_vars

\* Timelines whose cues share frames: three cues within 20 ms and a fourth
\* half a second later; cues at 20, 60 and 100 ms, of which the last two
\* share frame 2 at 25 fps (1.5 and 2.5 both round to 2) and none at 24 fps;
\* two cues a millisecond apart; and cues on frames of their own.
FrameTimelines ==
    {Timeline(<<PhonemeData("A", 0, 10, 1000), PhonemeData("B", 10, 20, 1000),
                PhonemeData("X", 20, 500, 1000), PhonemeData("A", 500, 600, 1000)>>),
     Timeline(<<PhonemeData("A", 20, 60, 1000), PhonemeData("B", 60, 100, 1000),
                PhonemeData("X", 100, 200, 1000)>>),
     Timeline(<<PhonemeData("B", 100, 101, 1000), PhonemeData("A", 101, 201, 1000)>>),
     Timeline(<<PhonemeData("A", 0, 500, 1000), PhonemeData("B", 500, 1000, 1000)>>)}

\* Mappings with an index for each of A, B and X, and with A and B only
FrameMappings ==
    {AddItems(PhonemeMapping("gp_layer", "rhubarb"), items) :
        items \in {<<Item("A", 1, TRUE, "LayerA", "", TRUE),
                     Item("B", 2, FALSE, "", "LayerB", TRUE),
                     Item("X", 3, FALSE, "", "Missing", TRUE)>>,
                   <<Item("A", 1, TRUE, "LayerA", "", TRUE),
                     Item("B", 2, TRUE, "LayerA", "", TRUE)>>}}

\* generate called with timelines whose cues share frames
NextFrames ==
    \E lipsync_data \in FrameTimelines, mapping \in FrameMappings,
       start_frame \in StartFrames, fps \in FpsValues, use_nla \in BOOLEAN :
       EngineGenerate(lipsync_data, mapping, start_frame, fps, use_nla)

SpecFrames == InitAnim /\ [][NextFrames]_vars

\* The frames and the indices of the keyframes given to the easing
EasingFrames == {1, 2, 4, 9}

EasingIndices == {0, 1, 3}

\* The dicts frame -> index (in hundredths), in ascending order of the frames
KeyframeDicts ==
    UNION {{[k \in 1..Cardinality(S) |-> <<SortedSeq(S)[k], 100 * g[SortedSeq(S)[k]]>>] :
               g \in [S -> EasingIndices]} : S \in SUBSET EasingFrames}

\* The four curves and a name get_easing_function does not know
EasingTypes == {"ease_in_out", "ease_in", "ease_out", "smooth", "linear"}

\* easing_duration in thousandths: 0.5, 1.0, 2.0, 2.5, 3.0 (the default), 4.0
EasingDurations == {500, 1000, 2000, 2500, 3000, 4000}

\* The arguments of a call of apply_easing_to_keyframes
InitEasing ==
    /\ audio_analyzing = FALSE
    /\ phoneme_data_cached = FALSE /\ has_phoneme_data = FALSE
    /\ audio_filepath = "" /\ phoneme_data_cache = NoData
    /\ texts = [h \in Hashes |-> NoText]
    /\ cls = ClsInit
    /\ njobs = 0
    /\ worker = [j \in Jobs |-> WorkerInit]
    /\ poller = [j \in Jobs |-> PollerInit]
    /\ wavfiles = {}
    /\ cancelled = {}
    /\ content = ContentInit
    /\ SceneInit
    /\ \E keyframe_data \in KeyframeDicts, easing_type \in EasingTypes,
          easing_duration \in EasingDurations :
          last = [op |-> "easing_input", keyframe_data |-> keyframe_data,
                  easing_type |-> easing_type, easing_duration |-> easing_duration,
                  eased |-> <<>>]

NextEasing == ApplyEasing

SpecEasing == InitEasing /\ [][NextEasing]_vars

\* The symbols given to the viseme reduction: those of the table, the same
\* in lower and mixed case, the mouth shapes of the tool, names of visemes
\* and the empty string
Symbols ==
    UNION {STANDARD_VISEMES[k][2] : k \in DOMAIN STANDARD_VISEMES}
       \cup DOMAIN UpperCase
       \cup {"A", "C", "E", "H", "X", "EE", "OH", "OO", "ZZ", ""}

\* A symbol for phoneme_to_viseme
InitViseme ==
    /\ audio_analyzing = FALSE
    /\ phoneme_data_cached = FALSE /\ has_phoneme_data = FALSE
    /\ audio_filepath = "" /\ phoneme_data_cache = NoData
    /\ texts = [h \in Hashes |-> NoText]
    /\ cls = ClsInit
    /\ njobs = 0
    /\ worker = [j \in Jobs |-> WorkerInit]
    /\ poller = [j \in Jobs |-> PollerInit]
    /\ wavfiles = {}
    /\ cancelled = {}
    /\ content = ContentInit
    /\ SceneInit
    /\ \E phoneme \in Symbols :
          last = [op |-> "viseme_input", phoneme |-> phoneme, viseme |-> "", index |-> 0]

NextViseme == ReduceToViseme

SpecViseme == InitViseme /\ [][NextViseme]_vars

\* The starts, in thousandths, and the values of the cues of a payload
CueStarts == {0, 250, 500}

CueValues == {"X", "A"}

MaxCues == 3

\* The mouthCues of the payloads: up to MaxCues cues in any order of starts
CueLists ==
    UNION {[1..n -> [start : CueStarts, value : CueValues]] : n \in 0..MaxCues}

\* A payload for _parse_rhubarb_output
InitParse ==
    /\ audio_analyzing = FALSE
    /\ phoneme_data_cached = FALSE /\ has_phoneme_data = FALSE
    /\ audio_filepath = "" /\ phoneme_data_cache = NoData
    /\ texts = [h \in Hashes |-> NoText]
    /\ cls = ClsInit
    /\ njobs = 0
    /\ worker = [j \in Jobs |-> WorkerInit]
    /\ poller = [j \in Jobs |-> PollerInit]
    /\ wavfiles = {}
    /\ cancelled = {}
    /\ content = ContentInit
    /\ SceneInit
    /\ \E mouthCues \in CueLists :
          last = [op |-> "parse_input", mouthCues |-> mouthCues, ok |-> FALSE,
                  text |-> "", data |-> NoData]

NextParse == ParseCues

SpecParse == InitParse /\ [][NextParse]_vars

\* The cues of the timelines the generate operator finds in the cache: three
\* cues of which the second starts 0.01 s after the first; a cue of 0.02 s
\* followed by a gap; the nine mouth shapes, the first from 0 s; and two
\* cues of a payload that is not in time order.
CachedCues ==
    {<<PhonemeData("X", 0, 10, 1000), PhonemeData("A", 10, 500, 1000),
       PhonemeData("B", 500, 1000, 1000)>>,
     <<PhonemeData("A", 1000, 1020, 1000), PhonemeData("B", 1150, 1250, 1000)>>,
     <<PhonemeData("X", 0, 10, 1000), PhonemeData("A", 10, 50, 1000),
       PhonemeData("B", 50, 100, 1000), PhonemeData("C", 100, 250, 1000),
       PhonemeData("D", 250, 350, 1000), PhonemeData("E", 350, 500, 1000),
       PhonemeData("F", 500, 1000, 1000), PhonemeData("G", 1000, 1020, 1000),
       PhonemeData("H", 1020, 1150, 1000)>>,
     <<PhonemeData("B", 500, 250, 1000), PhonemeData("A", 250, 350, 1000)>>}

\* The mapping items of the nine mouth shapes, all enabled and with a target
NineItems ==
    <<Item("X", 0, TRUE, "LayerA", "", TRUE), Item("A", 1, TRUE, "LayerB", "", TRUE),
      Item("B", 2, TRUE, "LayerC", "", TRUE), Item("C", 3, TRUE, "LayerA", "", TRUE),
      Item("D", 4, TRUE, "LayerB", "", TRUE), Item("E", 5, TRUE, "LayerC", "", TRUE),
      Item("F", 6, TRUE, "LayerA", "", TRUE), Item("G", 7, TRUE, "LayerB", "", TRUE),
      Item("H", 8, TRUE, "LayerC", "", TRUE)>>

\* The lists of mapping items of the scene
GenItemLists ==
    {NineItems,
     <<Item("A", 1, TRUE, "LayerA", "", TRUE), Item("B", 2, FALSE, "", "LayerB", TRUE)>>}

\* The frame rates of the scene
GenFps == {20, 24}

\* props.min_hold_frames: none and the default
MinHoldFrames == {0, 2}

\* props.merge_threshold in thousandths: none and the default 0.04
MergeThresholds == {0, 40}

\* A scene after an analysis of b.mp3, without animation
InitGenerate ==
    /\ audio_analyzing = FALSE
    /\ phoneme_data_cached = TRUE /\ has_phoneme_data = TRUE
    /\ audio_filepath = "b.mp3"
    /\ \E phonemes \in CachedCues : phoneme_data_cache = MkData(1, "b.mp3", phonemes)
    /\ texts = [h \in Hashes |->
                   IF h = md5("B")
                   THEN json_dumps([audio_hash |-> h, audio_filename |-> "b.mp3",
                                    phoneme_data |-> to_dict(phoneme_data_cache)])
                   ELSE NoText]
    /\ cls = ClsInit
    /\ njobs = 0
    /\ worker = [j \in Jobs |-> WorkerInit]
    /\ poller = [j \in Jobs |-> PollerInit]
    /\ wavfiles = {}
    /\ cancelled = {}
    /\ last = LastInit
    /\ content = ContentInit
    /\ SceneInit

NextGenerate ==
    \/ \E items \in GenItemLists, start_frame \in StartFrames,
          min_hold_frames \in MinHoldFrames, merge_threshold \in MergeThresholds :
          GenerateOperator(items, "rhubarb", start_frame, FALSE, min_hold_frames,
                           merge_threshold)
    \/ \E items \in GenItemLists, start_frame \in StartFrames, fps \in GenFps,
          use_nla \in BOOLEAN :
          EngineGenerate(phoneme_data_cache,
                         AddItems(PhonemeMapping("gp_layer", "rhubarb"), items),
                         start_frame, fps, use_nla)

SpecGenerate == InitGenerate /\ [][NextGenerate]_vars

(***************************************************************************)
(* The timer tick of modal in its steps: the worker runs between the       *)
(* reads of the class state (poller specification)                         *)
(***************************************************************************)
\* No call of modal is under way on the control thread.
ControlIdle == \A p \in Jobs : DOMAIN poller[p] = {"modal", "timer"}

\* The operator instance of job p is inside a timer tick, at position pos.
InTick(p, pos) == "tick" \in DOMAIN poller[p] /\ poller[p].tick = pos

\* modal, TIMER: the primary check "_result is not None"; a present result
\* is processed, otherwise the tick goes on to the thread check.
TickResultCheck(p) ==
    /\ ControlIdle
    /\ poller[p].modal
    /\ IF cls._result # NoResult
       THEN ModalResultReady(p)
       ELSE /\ poller' = [poller EXCEPT ![p] = @ @@ [tick |-> "thread", alive |-> FALSE]]
            /\ UNCHANGED <<props, phoneme_data_cache, texts, cls, njobs, worker, wavfiles,
                           cancelled, last, outside>>

\* modal, TIMER: "thread_alive = thread is not None and thread.is_alive()"
TickThreadCheck(p) ==
    /\ InTick(p, "thread")
    /\ poller' = [poller EXCEPT ![p] = [@ EXCEPT !.tick = "recheck",
                                                 !.alive = ThreadAlive(cls)]]
    /\ UNCHANGED <<props, phoneme_data_cache, texts, cls, njobs, worker, wavfiles,
                   cancelled, last, outside>>

\* modal, TIMER: the rest of the tick once the thread-died branch is not
\* taken: the timeout branch when more than 900 s have passed since
\* _start_time, else the status bar.
TickElapsed(p) ==
    /\ UNCHANGED <<cancelled, outside>>
    /\ IF cls._start_time = "over900"
       THEN /\ EndPoller(p)
            /\ audio_analyzing' = FALSE
            /\ cls' = ResetProgressAndThread(cls)
            /\ last' = Report("modal", "CANCELLED", "ERROR",
                              "Analysis timed out after 15 minutes", p)
            /\ UNCHANGED <<phoneme_data_cached, has_phoneme_data, audio_filepath,
                           phoneme_data_cache, texts, njobs, worker, wavfiles>>
       ELSE /\ poller' = [poller EXCEPT ![p] = [modal |-> TRUE, timer |-> TRUE]]
            /\ last' = Report("modal", "PASS_THROUGH", "", "", p)
            /\ UNCHANGED <<props, phoneme_data_cache, texts, cls, njobs, worker, wavfiles>>

\* A tick without the thread-died branch.
TickRecheck_NoDiedBranch(p) ==
    /\ InTick(p, "recheck")
    /\ TickElapsed(p)

\* modal, TIMER: "if not thread_alive and _result is None", with _result
\* read again
TickRecheck(p) ==
    /\ InTick(p, "recheck")
    /\ IF ~poller[p].alive /\ cls._result = NoResult
       THEN ModalThreadDied(p)
       ELSE TickElapsed(p)

\* analyze_thread's first print fails (a console that cannot encode the
\* text): the prints of the except and the finally clause fail as well, and
\* the thread ends without a result.
WStartPrintFails(j) ==
    /\ UNCHANGED <<cancelled, outside>>
    /\ worker[j].pc = "start"
    /\ is_available(worker[j].tool_path, TRUE)
    /\ cls' = progress_callback([cls EXCEPT !._start_time = "fresh"], 0,
                                "Starting phoneme extraction...")
    /\ worker' = [worker EXCEPT ![j] =
                     [WorkerInit EXCEPT !.pc = "dead", !.raised = "UnicodeEncodeError"]]
    /\ UNCHANGED <<props, phoneme_data_cache, texts, njobs, poller, wavfiles, last>>

\* A scene with a WAV file selected and no analysis yet
InitPoller ==
    /\ audio_analyzing = FALSE
    /\ phoneme_data_cached = FALSE
    /\ has_phoneme_data = FALSE
    /\ audio_filepath = "a.wav"
    /\ phoneme_data_cache = NoData
    /\ texts = [h \in Hashes |-> NoText]
    /\ cls = ClsInit
    /\ njobs = 0
    /\ worker = [j \in Jobs |-> WorkerInit]
    /\ poller = [j \in Jobs |-> PollerInit]
    /\ wavfiles = {}
    /\ cancelled = {}
    /\ last = LastInit
    /\ content = ContentInit
    /\ SceneInit

\* The control thread runs one operator call at a time; the worker threads
\* and the tool run between all of its steps.
NextPoller ==
    \/ ControlIdle /\ ExecuteRejected("", "", "bin/rhubarb")
    \/ ControlIdle /\ ExecuteCached("", "", "bin/rhubarb")
    \/ ControlIdle /\ ExecuteStart("", "", "bin/rhubarb")
    \/ ControlIdle /\ CancelAnalysis
    \/ \E p \in Jobs : TickResultCheck(p)
    \/ \E p \in Jobs : TickThreadCheck(p)
    \/ \E p \in Jobs : TickRecheck(p)
    \/ TimePasses
    \/ \E j \in Jobs, version_ok \in BOOLEAN : WStart(j, version_ok)
    \/ \E j \in Jobs : WStartPrintFails(j)
    \/ \E j \in Jobs : WExtract(j, TRUE)
    \/ \E j \in Jobs, e \in SysExits : ToolExit(j, e)
    \/ \E j \in Jobs : WCommunicateReturn(j)
    \/ \E j \in Jobs : WCommunicateTimeout(j)
    \/ \E j \in Jobs : WExit(j)

SpecPoller == InitPoller /\ [][NextPoller]_vars

\* A step of job j's worker thread; the wait in communicate ends when the
\* tool has exited or the 600 s have passed.
WorkerStep(j) ==
    \/ \E version_ok \in BOOLEAN : WStart(j, version_ok)
    \/ WStartPrintFails(j)
    \/ WExtract(j, TRUE)
    \/ WCommunicateReturn(j)
    \/ WCommunicateTimeout(j)
    \/ WExit(j)

\* A step of a timer tick of job p's operator instance
TickStep(p) == TickResultCheck(p) \/ TickThreadCheck(p) \/ TickRecheck(p)

\* The interpreter schedules every live thread, and the window manager
\* delivers timer events to every installed modal handler again and again,
\* also while other handlers take their ticks.
SpecPollerLive ==
    /\ SpecPoller
    /\ \A j \in Jobs : WF_vars(WorkerStep(j))
    /\ \A p \in Jobs : SF_vars(TickStep(p))

(***************************************************************************)
(* Single job at a time, cancellation, stale state (system specification)  *)
(***************************************************************************)
\* The workers that run: the thread is alive or its tool process has not ended.
Running == {j \in Jobs : is_alive(j) \/ worker[j].proc = "running"}

\* C1: at most one analysis job runs at any time: no two worker threads
\* (with their tool subprocesses) are alive together, that is, execute starts
\* a new worker only when no previously started worker is still alive.
C1_AtMostOneWorker == Cardinality(Running) <= 1

\* C2: a result written by the worker of a cancelled job after the
\* cancellation is discarded: no modal step reports success while storing
\* the data of a job that was cancelled, neither in the module cache nor in
\* the stored text blocks.
C2_CancelledResultDiscarded ==
    [][(last' # last /\ last'.op = "modal" /\ last'.ret = "FINISHED")
          => /\ phoneme_data_cache'.metadata.job \notin cancelled
             /\ \A h \in Hashes :
                    (texts'[h] # texts[h] /\ texts'[h] # NoText)
                       => json_loads(texts'[h]).phoneme_data.metadata.job \notin cancelled]_vars

\* C3: cancelling a job terminates its tool subprocess: the process of a
\* cancelled job is not left running.
C3_CancelKillsProcess == \A j \in cancelled : worker[j].proc # "running"

\* The state execute recovers from: the flag is set and no recorded thread is alive.
FlagWithoutThread == audio_analyzing /\ ~(cls._thread # NoJob /\ is_alive(cls._thread))

\* The state execute rejects: the flag is set and the recorded thread is alive.
FlagWithThread == audio_analyzing /\ cls._thread # NoJob /\ is_alive(cls._thread)

\* A call of execute has returned in this step.
ExecuteReturned == last' # last /\ last'.op = "execute"

\* C4: execute rejects the request as already in progress exactly when the
\* flag is set and the recorded worker thread is alive.  When the flag is set
\* and no recorded thread is alive, execute logs the stale state, resets the
\* flag and the progress fields, and goes on: with a valid audio file, no
\* stored entry and a resolvable tool it starts a new job.
C4_StaleStateRecovery ==
    [][ExecuteReturned =>
          /\ (last'.text = "Analysis already in progress") = FlagWithThread
          /\ last'.stale = FlagWithoutThread
          /\ FlagWithoutThread =>
                /\ audio_analyzing' = (last'.ret = "RUNNING_MODAL")
                /\ cls'._progress_percent = 0
                /\ cls'._start_time = "None"
                /\ (/\ validate_audio_file(audio_filepath)[1]
                    /\ ~load_phoneme_data(audio_filepath)[1]
                    /\ last'.rhubarb # "")
                      => /\ last'.ret = "RUNNING_MODAL"
                         /\ njobs' = njobs + 1
                         /\ worker'[njobs'].pc = "start"
                         /\ cls'._thread = njobs'
                         /\ poller'[njobs'].modal]_vars

\* A new job was started from a stale state.
C4_Witness ==
    /\ last.op = "execute" /\ last.stale /\ last.ret = "RUNNING_MODAL"
    /\ audio_analyzing /\ cls._thread = njobs /\ worker[njobs].pc = "start"

(***************************************************************************)
(* The worker's results (worker specification)                             *)
(***************************************************************************)
\* The worker threads that have stored their result and not yet ended.
Finishing == {j \in Jobs : worker[j].threaded /\ worker[j].pc = "finishing"}

\* The tool of job j ended by itself and communicate returned its output.
ToolEnded(j) == worker[j].proc = "reaped" /\ ~worker[j].timed_out

\* What the worker stores for an error raised by extract_phonemes.
Extraction(message) == Failure("Analysis failed: Phoneme extraction failed: " \o message)

\* C5: a job ends in success only if the tool exited with code 0 and its
\* stdout is a JSON object with a non-empty mouthCues list, and a success
\* never holds an empty cue list.  A non-zero exit code yields a failure that
\* carries the captured diagnostic (stderr, else stdout, else "Unknown
\* error"); exit code 0 with empty, non-JSON, malformed, mouthCues-less or
\* cue-less output yields a failure with the parse-error message of that case.
C5_SuccessOnlyFromValidOutput ==
    \A j \in Finishing :
       LET w == worker[j] IN
       /\ w.wrote.ok =>
             /\ ToolEnded(j) /\ w.returncode = 0
             /\ w.stdout_data = "{mouthCues: [X, A]}"
             /\ Len(w.wrote.data.phonemes) > 0
       /\ (ToolEnded(j) /\ w.returncode # 0) =>
             w.wrote = Extraction("Rhubarb failed with code: " \o
                                  (IF w.stderr_lines # "" THEN w.stderr_lines
                                   ELSE IF w.stdout_data # "" THEN w.stdout_data
                                   ELSE "Unknown error"))
       /\ (ToolEnded(j) /\ w.returncode = 0) =>
             /\ w.stdout_data \in {"", "not json"} =>
                   w.wrote = Extraction("Rhubarb didn't return JSON")
             /\ w.stdout_data = "{ truncated" =>
                   w.wrote = Extraction("Failed to parse Rhubarb output")
             /\ w.stdout_data = "{}" =>
                   w.wrote = Extraction("Invalid Rhubarb output format - no mouthCues found")
             /\ w.stdout_data = "{mouthCues: []}" =>
                   w.wrote = Extraction("No phonemes extracted from audio")

\* A tool that exited with code 1 after printing a valid result: a failure.
C5_Witness ==
    \E j \in Finishing :
       /\ ToolEnded(j) /\ worker[j].returncode = 1
       /\ worker[j].stdout_data = "{mouthCues: [X, A]}"
       /\ ~worker[j].wrote.ok

\* The result a worker stores for the tool-phase timeout.
TimedOutResult == Extraction("Rhubarb timed out after 10 minutes")

ExtractEnds(j) ==
    /\ worker[j].pc \in {"extract", "convert", "communicate"}
    /\ worker'[j].pc \in {"finishing", "returned"}

BadAudio(p) ==
    \/ ~PathExists(p)
    \/ ~PathIsFile(p)
    \/ FileSize(p) = 0
    \/ Ext(p) \notin {".wav", ".mp3", ".ogg", ".flac", ".m4a", ".aac"}

\* C8: extract_phonemes raises AudioFileError, before the converter or the
\* tool is spawned, for every audio path that does not exist, is not a
\* regular file, is empty, or has an unsupported extension (here: in the calls
\* whose tool path exists).
C8_ExtractRejectsBadAudio ==
    \A j \in Jobs :
       (/\ worker[j].pc # "unborn" /\ ~worker[j].threaded
        /\ BadAudio(worker[j].audio_path) /\ ToolExists(worker[j].tool_path)) =>
          /\ worker[j].spawned \cap {"ffmpeg", "rhubarb"} = {}
          /\ worker[j].pc \in {"extract", "returned"}
          /\ worker[j].pc = "returned" => worker[j].raised = "AudioFileError"

(***************************************************************************)
(* execute's validation (validation specification)                         *)
(***************************************************************************)
\* execute returned CANCELLED with an error and started nothing.
FailedFast ==
    /\ last'.ret = "CANCELLED" /\ last'.level = "ERROR"
    /\ njobs' = njobs /\ worker' = worker /\ poller' = poller /\ wavfiles' = wavfiles
    /\ ~audio_analyzing'

\* C7 (as stated): when the selected audio path is missing, not a regular
\* file, empty or unsupported, or when no existing tool executable can be
\* resolved, execute returns CANCELLED with an error report before any worker,
\* converter or tool is started, and audio_analyzing is false afterwards.
C7_ValidationFailsFast ==
    [][(ExecuteReturned /\ (BadAudio(audio_filepath) \/ last'.rhubarb = ""))
          => FailedFast]_vars

\* C7 (amended): the same, provided that no recorded worker thread is alive
\* while the flag is set and, for the missing tool, that the audio is valid
\* and the store holds no entry for it.  While a recorded worker is alive and
\* the flag is set, execute returns CANCELLED with a warning, starts nothing
\* and leaves the flag set; with a stored entry it returns FINISHED without
\* looking for the tool.
C7_ValidationFailsFastUnlessBusyOrStored ==
    [][ExecuteReturned =>
          /\ (/\ ~FlagWithThread
              /\ \/ BadAudio(audio_filepath)
                 \/ last'.rhubarb = "" /\ ~load_phoneme_data(audio_filepath)[1])
                => FailedFast
          /\ FlagWithThread =>
                /\ last'.ret = "CANCELLED" /\ last'.level = "WARNING"
                /\ njobs' = njobs /\ worker' = worker /\ poller' = poller
                /\ audio_analyzing'
          /\ (/\ ~FlagWithThread /\ ~BadAudio(audio_filepath)
              /\ load_phoneme_data(audio_filepath)[1])
                => /\ last'.ret = "FINISHED"
                   /\ njobs' = njobs /\ worker' = worker /\ poller' = poller]_vars

\* execute has rejected an empty audio file from a stale state.
C7_Witness ==
    /\ last.op = "execute" /\ last.ret = "CANCELLED" /\ last.level = "ERROR"
    /\ last.stale /\ audio_filepath = "empty.wav" /\ ~audio_analyzing /\ njobs = 1

(***************************************************************************)
(* The store                                                               *)
(***************************************************************************)
\* save_phoneme_data(last'.path, last'.data) has been called for a readable
\* file in this step.
Saved ==
    /\ last'.op = "save" /\ last'.ok
    /\ content' = content
    /\ texts' = save_phoneme_data(last'.path, last'.data)

\* load_phoneme_data(last'.path) has been called in this step.
Loaded == last' # last /\ last'.op = "load"

\* C11: round trip through the store.  Whenever save_phoneme_data(path, T) is
\* called for a readable audio file, load_phoneme_data(path) in the state it
\* leaves returns success and a timeline equal to T: the same cues in the
\* same order (symbol, start, end, confidence) and the same duration, sample
\* rate, language and symbol set.
C11_CacheRoundTrip ==
    [][Saved => (LET loaded == load_phoneme_data(last.path)
                 IN  loaded[1] /\ loaded[2] = last.data)']_vars

\* A load has returned the saved timeline none of whose values is a default.
C11_Witness ==
    /\ last.op = "load" /\ last.ok
    /\ Len(last.data.phonemes) = 1
    /\ last.data.phonemes[1] = PhonemeData("B", 50, 1250, 500)
    /\ last.data.sample_rate = 48000 /\ last.data.language = "fr"
    /\ last.data.phoneme_set = "preston_blair" /\ last.data.duration = 1250

\* C12: the key of an entry is made from the file's bytes only.  After a save
\* for one file, a load for every path that holds the same bytes returns the
\* saved timeline; and when a file's bytes change to content for which the
\* store holds no entry, a load for the same path is a miss.
C12_KeyIsContent ==
    [][/\ Saved
             => \A other \in DOMAIN content :
                   content[other] = content[last'.path]
                      => (LET loaded == load_phoneme_data(other)
                          IN  loaded[1] /\ loaded[2] = last.data)'
       /\ \A audio_path \in DOMAIN content :
             (content'[audio_path] # content[audio_path]
                /\ texts[md5(content'[audio_path])] = NoText)
                => (LET loaded == load_phoneme_data(audio_path)
                    IN  ~loaded[1] /\ loaded[2] = NoData)']_vars

\* A load for b.mp3 has returned the entry that was saved for a.wav.
C12_Witness ==
    /\ last.op = "load" /\ last.path = "b.mp3" /\ last.ok
    /\ content["b.mp3"] = content["a.wav"]
    /\ texts[md5(content["b.mp3"])] \notin {NoText, NotJson}
    /\ json_loads(texts[md5(content["b.mp3"])]).audio_filename = "a.wav"

\* The text block for audio_path holds a document whose recorded hash is not
\* the hash of the file's bytes.
RecordedHashDiffers(audio_path) ==
    /\ get_audio_hash(audio_path) # ""
    /\ texts[get_audio_hash(audio_path)] \notin {NoText, NotJson}
    /\ json_loads(texts[get_audio_hash(audio_path)]).audio_hash
          # get_audio_hash(audio_path)

\* C13: load_phoneme_data returns data only if the hash recorded in the
\* stored document equals the hash of the file's bytes at the time of the
\* call; when they differ the call returns a miss (success false, no data),
\* raises nothing and leaves the store as it was.
C13_LoadVerifiesHash ==
    [][Loaded
          => /\ last'.ok
                  => /\ get_audio_hash(last'.path) # ""
                     /\ texts[get_audio_hash(last'.path)] \notin {NoText, NotJson}
                     /\ ~RecordedHashDiffers(last'.path)
             /\ RecordedHashDiffers(last'.path)
                  => /\ ~last'.ok /\ last'.data = NoData
                     /\ last'.text = "Audio file has changed - data is outdated"
             /\ texts' = texts]_vars

\* A load has found a document with another hash recorded in it and
\* returned a miss.
C13_Witness ==
    /\ last.op = "load" /\ ~last.ok /\ last.data = NoData
    /\ last.text = "Audio file has changed - data is outdated"
    /\ RecordedHashDiffers(last.path)

\* The store holds no entry for the bytes of audio_path.
NoEntry(audio_path) ==
    get_audio_hash(audio_path) # "" /\ texts[get_audio_hash(audio_path)] = NoText

\* C14: delete is idempotent.  For an audio file without a stored entry,
\* delete_phoneme_data returns (False, "No data to delete") and the store is
\* left as it was; the operator reports it as a warning and returns
\* FINISHED.  After a delete, a second delete for the same file finds no
\* entry and leaves the store of the first.
C14_DeleteIdempotent ==
    [][(DeleteOperator /\ audio_filepath # "")
          => /\ NoEntry(audio_filepath)
                  => /\ delete_phoneme_data(audio_filepath)
                           = <<FALSE, "No data to delete", texts>>
                     /\ texts' = texts
                     /\ last'.ret = "FINISHED" /\ last'.level = "WARNING"
                     /\ last'.text = "No data to delete"
             /\ get_audio_hash(audio_filepath) = "" => texts' = texts
             /\ get_audio_hash(audio_filepath) # ""
                  => /\ NoEntry(audio_filepath)'
                     /\ delete_phoneme_data(audio_filepath)[3]' = texts'
                     /\ ~delete_phoneme_data(audio_filepath)[1]']_vars

\* The delete operator has found no entry for the selected file in a store
\* that holds an entry for another file.
C14_Witness ==
    /\ last.op = "delete" /\ last.level = "WARNING"
    /\ last.text = "No data to delete"
    /\ NoEntry(audio_filepath)
    /\ \E h \in DOMAIN texts : texts[h] # NoText

(***************************************************************************)
(* execute with a stored entry                                             *)
(***************************************************************************)
\* What execute does with a stored entry: the entry becomes the in-memory
\* timeline, both flags of the properties are set, the call returns FINISHED,
\* no worker, poller or subprocess is started and audio_analyzing is not set.
LoadedInsteadOfAnalysed ==
    /\ last'.ret = "FINISHED"
    /\ phoneme_data_cache' = load_phoneme_data(audio_filepath)[2]
    /\ phoneme_data_cached' /\ has_phoneme_data'
    /\ njobs' = njobs /\ worker' = worker /\ poller' = poller
    /\ ~audio_analyzing'

\* C15 (as stated): whenever execute is called while the store holds a valid
\* entry for the selected audio, it loads the entry into the in-memory
\* timeline, sets phoneme_data_cached and has_phoneme_data and returns
\* FINISHED without starting a worker and without setting audio_analyzing,
\* whether or not a tool is installed.
C15_ReanalysisSkipped ==
    [][(ExecuteReturned /\ load_phoneme_data(audio_filepath)[1])
          => LoadedInsteadOfAnalysed]_vars

\* C15 (amended): the same, provided that no analysis is in progress and the
\* selected file passes validate_audio_file.  While the flag is set and the
\* recorded worker thread is alive, execute returns CANCELLED with a warning,
\* and for a file that fails validation it returns CANCELLED with an error,
\* both before it looks at the store: nothing is loaded, the flags of the
\* properties and the in-memory timeline stay as they are, and no worker is
\* started.
C15_ReanalysisSkippedUnlessBusy ==
    [][(ExecuteReturned /\ load_phoneme_data(audio_filepath)[1])
          => /\ (~FlagWithThread /\ ~BadAudio(audio_filepath))
                  => LoadedInsteadOfAnalysed
             /\ (FlagWithThread \/ BadAudio(audio_filepath))
                  => /\ last'.ret = "CANCELLED"
                     /\ last'.level = IF FlagWithThread THEN "WARNING" ELSE "ERROR"
                     /\ phoneme_data_cache' = phoneme_data_cache
                     /\ phoneme_data_cached' = phoneme_data_cached
                     /\ has_phoneme_data' = has_phoneme_data
                     /\ njobs' = njobs /\ worker' = worker /\ poller' = poller]_vars

\* execute has loaded the stored entry of the selected audio while no tool
\* is installed.
C15_Witness ==
    /\ last.op = "execute" /\ last.ret = "FINISHED" /\ last.rhubarb = ""
    /\ phoneme_data_cached /\ has_phoneme_data /\ ~audio_analyzing
    /\ load_phoneme_data(audio_filepath)[1]
    /\ phoneme_data_cache = load_phoneme_data(audio_filepath)[2]
    /\ Len(phoneme_data_cache.phonemes) = 2

(***************************************************************************)
(* Animation                                                               *)
(***************************************************************************)
\* A call of generate has returned or raised in this step.
Generated == ncalls' = ncalls + 1 /\ last'.op = "generate"

\* C16: every cue's keyframe is at start_frame + round(start_time * fps): the
\* integer nearest to the product, never the product cut off, and for a
\* product half way between two integers always the even one.  For fps = 24,
\* start_frame = 1 and a cue starting at 0.5 s the frame is 13.
C16_FrameIsRounded ==
    [][Generated =>
          \A i \in DOMAIN last'.lipsync_data.phonemes :
             LET x == last'.lipsync_data.phonemes[i].start_time * last'.fps
                 Dist(n) == IF 1000 * n >= x THEN 1000 * n - x ELSE x - 1000 * n
                 n == CHOOSE n \in 0..40 :
                         Dist(n) < 500 \/ (Dist(n) = 500 /\ n % 2 = 0)
             IN /\ FrameOf(last'.lipsync_data, i, last'.start_frame, last'.fps)
                      = last'.start_frame + n
                /\ last'.start_frame + n \in DOMAIN keys'
                /\ (last'.fps = 24 /\ last'.start_frame = 1
                       /\ last'.lipsync_data.phonemes[i].start_time = 500)
                      => 13 \in DOMAIN keys' /\ n = 12]_vars

\* generate has put the keyframe of a cue starting at 0.5 s at frame 13
\* (fps 24, start_frame 1) and that of a cue starting at 0 s at frame 1.
C16_Witness ==
    /\ last.op = "generate" /\ last.fps = 24 /\ last.start_frame = 1
    /\ Len(last.lipsync_data.phonemes) = 2
    /\ last.lipsync_data.phonemes[2].start_time = 500
    /\ DOMAIN keys = {1, 13}

\* The mapping has no entry with a target for the symbol: there is none, or
\* the item was disabled or without a target and the operator left it out.
Unmapped(mapping, phoneme) ==
    \/ ~DictHas(mapping.mappings, phoneme)
    \/ DictGet(mapping.mappings, phoneme, [index |-> 0, target |-> ""]).target = ""

\* C17: a cue whose symbol has no mapping entry, or only a disabled or
\* target-less one, gets a keyframe with index 0; generate does not raise
\* because of it; and the result reports unmapped_count, the number of such
\* cues.
C17_UnmappedCueIsRest ==
    [][(Generated /\ last'.text = "")
          => /\ \A i \in DOMAIN last'.lipsync_data.phonemes :
                   Unmapped(last'.mapping, last'.lipsync_data.phonemes[i].phoneme)
                      => keys'[FrameOf(last'.lipsync_data, i, last'.start_frame,
                                       last'.fps)] = 0
             /\ "unmapped_count" \in DOMAIN last'.results
             /\ last'.results.unmapped_count
                   = Cardinality({i \in DOMAIN last'.lipsync_data.phonemes :
                        Unmapped(last'.mapping,
                                 last'.lipsync_data.phonemes[i].phoneme)})]_vars

\* The keyframes the call of generate recorded in "last" has computed
NewKeyframes(call) ==
    frame_data(call.lipsync_data, build_phoneme_index_map(call.lipsync_data, call.mapping),
               call.start_frame, call.fps)

\* C18: after every call of generate the controller's keyframes are exactly
\* the keyframes that call has produced: the active action holds no keyframe
\* of an earlier generation, and neither does a strip of the NLA track.
C18_KeyframesReplaced ==
    [][Generated
          => /\ keys' = NewKeyframes(last')
             /\ \A k \in DOMAIN strips' : strips'[k].keys = NewKeyframes(last')]_vars

\* The call of generate before this one has returned, and no other call has
\* touched the drivers since.
GeneratedBefore == last.op = "generate" /\ last.text = ""

\* C19: binding again is idempotent.  A call of generate that follows a call
\* with the same timeline and mapping leaves the drivers of the target and
\* their variables exactly as that call left them; and after a call that
\* follows one with another mapping, every driver on the target is one of
\* the new mapping: on a layer the new mapping names, for the index it gives.
C19_RebindIdempotent ==
    [][(Generated /\ last'.text = "" /\ GeneratedBefore /\ ncalls = 1)
          => /\ (last.mapping = last'.mapping /\ last.lipsync_data = last'.lipsync_data)
                  => drivers' = drivers
             /\ \A l \in Layers :
                   drivers'[l] # NoDriver
                      => \E k \in DOMAIN last'.mapping.mappings :
                            /\ last'.mapping.mappings[k][2].target = l
                            /\ Len(drivers'[l].variables) = 1]_vars

\* The value create_driver documents for a driver bound to index i with
\* blend range r (in thousandths) when the control value is v
Activation(i, r, v) ==
    LET d == IF v >= i THEN v - i ELSE i - v
    IN IF r = 0 THEN (IF v = i THEN 1000 ELSE 0)
       ELSE IF r > 1000 * d THEN (1000 * (r - 1000 * d)) \div r ELSE 0

\* C20: a driver bound to index i without a blend range evaluates to 1.0 when
\* the control value is i and to 0.0 otherwise, so that at every integer
\* control value v the layers whose driver evaluates to 1.0 are exactly the
\* layers whose driver is bound to v; with a blend range r > 0 it evaluates
\* to max(0, 1 - |control - i| / r).  Checked when create_driver is called
\* with i and r, when generate binds a layer to the index of a symbol, and on
\* the drivers of every state.
C20_ActivationRule ==
    [][/\ \A i \in 1..2, l \in Layers, r \in BlendRanges :
             CreateDriver(i, l, r)
                => \A v \in ControlValues : Evaluate(drivers'[l], v) = Activation(i, r, v)
       /\ (Generated /\ last'.text = "")
             => \A l \in Layers :
                   drivers'[l] # drivers[l]
                      => \E k \in DOMAIN last'.mapping.mappings :
                            /\ last'.mapping.mappings[k][2].target = l
                            /\ \A v \in ControlValues :
                                  Evaluate(drivers'[l], v)
                                    = Activation(
                                        DictGet(build_phoneme_index_map(
                                                   last'.lipsync_data, last'.mapping),
                                                last'.mapping.mappings[k][1], 0),
                                        0, v)
       /\ \A v \in ControlValues :
             {l \in Layers : drivers'[l] # NoDriver /\ drivers'[l].expression[1] = "switch"
                               /\ Evaluate(drivers'[l], v) = 1000}
               = {l \in Layers : drivers'[l] # NoDriver
                                  /\ drivers'[l].expression[1] = "switch"
                                  /\ drivers'[l].expression[2] = v}]_vars

\* Two layers have drivers, one of them with a blend range, and at the
\* control value 1 the first is fully active and the second half active.
C20_Witness ==
    /\ drivers["LayerA"].expression = <<"switch", 1>>
    /\ drivers["LayerB"].expression = <<"blend", 2, 2000>>
    /\ Evaluate(drivers["LayerA"], 1) = 1000 /\ Evaluate(drivers["LayerA"], 2) = 0
    /\ Evaluate(drivers["LayerB"], 1) = 500 /\ Evaluate(drivers["LayerB"], 2) = 1000
    /\ Evaluate(drivers["LayerB"], 4) = 0

\* C21: when create_driver fails for one target, because the target object
\* has no such layer, the target is skipped: generate raises nothing and
\* returns success, every other target _create_drivers comes to has a rule
\* installed in this call, and drivers_created counts exactly those.
C21_FailedTargetSkipped ==
    [][(Generated /\ last'.text = "")
          => LET targets == DriverTargets(last'.mapping,
                               build_phoneme_index_map(last'.lipsync_data, last'.mapping))
             IN (\E t \in targets : t[2] \notin Layers)
                   => /\ last'.results.success
                      /\ \A t \in targets :
                            t[2] \in Layers
                               => /\ drivers'[t[2]] # NoDriver
                                  /\ Len(drivers'[t[2]].variables)
                                        > Len(drivers[t[2]].variables)
                      /\ last'.results.drivers_created
                            = Cardinality({t \in targets : t[2] \in Layers})]_vars

\* generate has returned success for a mapping whose first target is a layer
\* the object does not have, and the layer of the target after it has its rule.
C21_Witness ==
    /\ last.op = "generate" /\ last.text = "" /\ last.results.success
    /\ last.mapping.phoneme_set = "rhubarb"
    /\ Len(last.mapping.mappings) = 3
    /\ last.mapping.mappings[1][2] = [index |-> 1, target |-> "Missing"]
    /\ drivers["LayerA"].expression = <<"switch", 2>>
    /\ drivers["LayerB"].expression = <<"switch", 5>>
    /\ last.results.drivers_created = 2

\* The mapping table's entries that have the index and a target
EntriesFor(mapping, index) ==
    {k \in DOMAIN mapping.mappings :
        /\ mapping.mappings[k][2].index = index
        /\ mapping.mappings[k][2].target # ""}

\* C22: for every index in the keyframes a call of generate has produced for
\* which the mapping table holds an entry with a target, the call installs a
\* rule on the target of such an entry (on a layer the object has), also
\* when several symbols share the index and when the index comes from the
\* arpabet viseme reduction.
C22_IndexHasTarget ==
    [][(Generated /\ last'.text = "")
          => \A f \in DOMAIN NewKeyframes(last') :
                EntriesFor(last'.mapping, NewKeyframes(last')[f]) # {}
                   => \E k \in EntriesFor(last'.mapping, NewKeyframes(last')[f]) :
                         LET target == last'.mapping.mappings[k][2].target
                         IN target \in Layers
                               => Len(drivers'[target].variables)
                                     > Len(drivers[target].variables)]_vars

(***************************************************************************)
(* Easing                                                                  *)
(***************************************************************************)
\* The frames of a dict of keyframes
FramesOf(d) == {d[k][1] : k \in DOMAIN d}

\* C23: in the dict apply_easing_to_keyframes returns no frame occurs twice;
\* every input keyframe is in it at its frame with its value, so that every
\* transition ends on the target keyframe's frame and value; and every other
\* keyframe lies strictly between two consecutive input frames whose values
\* differ, with a value between theirs.
C23_EasingKeepsKeyframes ==
    last.op = "apply_easing"
       => /\ \A k, m \in DOMAIN last.eased :
                last.eased[k][1] = last.eased[m][1] => k = m
          /\ \A k \in DOMAIN last.keyframe_data :
                /\ DictHas(last.eased, last.keyframe_data[k][1])
                /\ DictGet(last.eased, last.keyframe_data[k][1], -1)
                      = last.keyframe_data[k][2]
          /\ \A k \in DOMAIN last.eased :
                last.eased[k][1] \notin FramesOf(last.keyframe_data)
                   => \E a, b \in DOMAIN last.keyframe_data :
                         LET fa == last.keyframe_data[a][1]
                             fb == last.keyframe_data[b][1]
                             va == last.keyframe_data[a][2]
                             vb == last.keyframe_data[b][2]
                         IN /\ fa < last.eased[k][1] /\ last.eased[k][1] < fb
                            /\ \A c \in DOMAIN last.keyframe_data :
                                  ~(fa < last.keyframe_data[c][1]
                                      /\ last.keyframe_data[c][1] < fb)
                            /\ va # vb
                            /\ \/ va <= last.eased[k][2] /\ last.eased[k][2] <= vb
                               \/ vb <= last.eased[k][2] /\ last.eased[k][2] <= va

\* The easing of the keyframes 0 at frame 4 and 3 at frame 9 over four steps
\* has put keyframes on the frames 5, 6 and 8 between them.
C23_Witness ==
    /\ last.op = "apply_easing" /\ last.easing_type = "ease_in_out"
    /\ last.easing_duration = 4000
    /\ last.keyframe_data = << <<4, 0>>, <<9, 300>> >>
    /\ last.eased = << <<4, 0>>, <<5, 19>>, <<6, 150>>, <<8, 281>>, <<9, 300>> >>

(***************************************************************************)
(* The generate operator                                                   *)
(***************************************************************************)
\* LIPKIT_OT_generate.execute has passed its checks and called generate in
\* this step.
OperatorGenerates ==
    last'.op = "generate_operator" /\ last' # last /\ last'.call # <<>>

\* The cues are in non-decreasing order of their starts.
TimeOrdered(phonemes) ==
    \A i \in 1..(Len(phonemes) - 1) : phonemes[i].start_time <= phonemes[i + 1].start_time

\* The cues the merge step retains: the first, and every cue that starts at
\* least merge_threshold after the retained cue before it
RECURSIVE Retained(_, _, _, _)
Retained(phonemes, merge_threshold, i, previous) ==
    IF i > Len(phonemes) THEN {}
    ELSE IF previous # 0
            /\ phonemes[i].start_time - phonemes[previous].start_time < merge_threshold
    THEN Retained(phonemes, merge_threshold, i + 1, previous)
    ELSE {i} \cup Retained(phonemes, merge_threshold, i + 1, i)

\* C24: merge step.  When the operator generates with merge_threshold > 0
\* from a timeline in time order,
\* it succeeds and the controller's keyframes are those of the retained cues
\* only: the first cue, and every cue that starts at least merge_threshold
\* after the retained cue before it.  For the starts 0.0, 0.01 and 0.5 and
\* the threshold 0.04 these are the cues at 0.0 and 0.5.
C24_MergeStep ==
    [][(/\ OperatorGenerates /\ last'.call[1].merge_threshold > 0
        /\ TimeOrdered(last'.call[1].lipsync_data.phonemes))
          => LET call == last'.call[1]
                 phonemes == call.lipsync_data.phonemes
                 kept == Retained(phonemes, call.merge_threshold, 1, 0)
             IN /\ last'.ret = "FINISHED"
                /\ \E fps \in GenFps :
                      DOMAIN keys'
                        = {call.start_frame + time_to_frame(phonemes[i].start_time, fps) :
                              i \in kept}
                /\ (/\ Len(phonemes) = 3 /\ phonemes[1].start_time = 0
                     /\ phonemes[2].start_time = 10 /\ phonemes[3].start_time = 500
                     /\ call.merge_threshold = 40)
                      => kept = {1, 3}]_vars

\* C25: min-hold step.  When the operator generates with a minimum hold,
\* the timeline its engine animates has the starts of the cached cues, and
\* every cue shorter than the hold (min_hold_frames at the scene's frame
\* rate) ends at its start plus the hold or, when the next cue starts before
\* that, at the start of the next cue; no two cues overlap.  A cue from 1.0 s
\* to 1.02 s with a hold of 0.1 s and the next cue at 1.15 s ends at 1.1 s.
C25_MinHoldStep ==
    [][(/\ OperatorGenerates /\ last'.call[1].min_hold_frames > 0
        /\ TimeOrdered(last'.call[1].lipsync_data.phonemes))
          => LET call == last'.call[1]
                 phonemes == call.lipsync_data.phonemes
                 cached == phoneme_data_cache.phonemes
             IN \E fps \in GenFps :
                   LET hold == (call.min_hold_frames * 1000) \div fps
                   IN /\ Len(phonemes) = Len(cached)
                      /\ \A i \in DOMAIN cached :
                            /\ phonemes[i].start_time = cached[i].start_time
                            /\ cached[i].end_time - cached[i].start_time < hold
                                  => phonemes[i].end_time
                                        = IF i < Len(cached)
                                             /\ cached[i + 1].start_time
                                                   < cached[i].start_time + hold
                                          THEN cached[i + 1].start_time
                                          ELSE cached[i].start_time + hold
                            /\ i < Len(cached)
                                  => phonemes[i].end_time <= phonemes[i + 1].start_time
                      /\ (/\ cached[1].start_time = 1000 /\ cached[1].end_time = 1020
                           /\ cached[2].start_time = 1150 /\ hold = 100)
                            => phonemes[1].end_time = 1100]_vars

\* The timeline holds the nine mouth shapes, its first cue starts at 0, and
\* the mapping holds all nine with a target.
NineShapes(call) ==
    /\ {call.lipsync_data.phonemes[i].phoneme : i \in DOMAIN call.lipsync_data.phonemes}
          = {"A", "B", "C", "D", "E", "F", "G", "H", "X"}
    /\ call.lipsync_data.phonemes[1].start_time = 0
    /\ \A i \in DOMAIN call.lipsync_data.phonemes :
          ~Unmapped(call.mapping, call.lipsync_data.phonemes[i].phoneme)

\* C26: end to end.  With a cached timeline of the nine mouth shapes whose
\* first cue starts at 0 and a mapping in which all nine are enabled and have
\* targets, the generate operator returns FINISHED, the controller has
\* keyframes, and the first of them is at start_frame.
C26_EndToEnd ==
    [][(OperatorGenerates /\ NineShapes(last'.call[1]))
          => /\ last'.ret = "FINISHED"
             /\ DOMAIN keys' # {}
             /\ FirstFrame(keys') = last'.call[1].start_frame]_vars

\* C27: a timeline whose cues are not in non-decreasing order of their
\* starts makes generate fail as a whole: the call raises, and it writes no
\* keyframe, makes no strip and installs no rule.
C27_UnorderedCuesFail ==
    [][(Generated /\ ~TimeOrdered(last'.lipsync_data.phonemes))
          => /\ last'.text # ""
             /\ keys' = keys /\ strips' = strips /\ drivers' = drivers]_vars

(***************************************************************************)
(* Parsing the tool's result                                               *)
(***************************************************************************)
\* C28: _parse_rhubarb_output keeps the cues in payload order with their
\* values and starts, ends cue i at the start of cue i + 1 and the last cue
\* 0.1 s after its start; the duration of the timeline is the end of the
\* last cue; and when the starts of the payload are strictly increasing,
\* every cue ends after it starts.
C28_ParseCueEnds ==
    (last.op = "parse" /\ Len(last.mouthCues) > 0)
       => LET n == Len(last.mouthCues)
              phonemes == last.data.phonemes
          IN /\ last.ok /\ Len(phonemes) = n
             /\ \A i \in 1..n :
                   /\ phonemes[i].phoneme = last.mouthCues[i].value
                   /\ phonemes[i].start_time = last.mouthCues[i].start
                   /\ i < n => phonemes[i].end_time = last.mouthCues[i + 1].start
             /\ phonemes[n].end_time = last.mouthCues[n].start + 100
             /\ last.data.duration = phonemes[n].end_time
             /\ (\A i \in 1..(n - 1) : last.mouthCues[i].start < last.mouthCues[i + 1].start)
                   => \A i \in 1..n : phonemes[i].end_time > phonemes[i].start_time

\* A payload of three cues with increasing starts has been parsed.
C28_Witness ==
    /\ last.op = "parse" /\ last.ok
    /\ last.mouthCues = <<[start |-> 0, value |-> "X"], [start |-> 250, value |-> "A"],
                          [start |-> 500, value |-> "X"]>>
    /\ last.data.phonemes[1].end_time = 250 /\ last.data.phonemes[2].end_time = 500
    /\ last.data.phonemes[3].end_time = 600 /\ last.data.duration = 600

(***************************************************************************)
(* Viseme reduction                                                        *)
(***************************************************************************)
\* The classes whose list holds the symbol
ClassesOf(symbol) ==
    {STANDARD_VISEMES[k][1] : k \in {k \in DOMAIN STANDARD_VISEMES :
                                        symbol \in STANDARD_VISEMES[k][2]}}

\* C29: for every symbol, in upper, lower or mixed case, phoneme_to_viseme
\* returns one of the nine viseme classes: the one class whose list holds the
\* symbol in upper case, and REST when no list holds it; no symbol is in the
\* lists of two classes; and get_viseme_index of the result is an integer in
\* 0..8, 0 for REST.
C29_VisemeTotal ==
    last.op = "viseme"
       => /\ last.viseme \in {"REST", "AH", "EE", "OH", "OO", "M", "F", "L", "S"}
          /\ Cardinality(ClassesOf(last.phoneme)) <= 1
          /\ \A symbol \in DOMAIN UpperCase :
                (last.phoneme = symbol \/ last.phoneme = UpperCase[symbol])
                   => /\ ClassesOf(UpperCase[symbol]) # {}
                            => last.viseme \in ClassesOf(UpperCase[symbol])
                      /\ ClassesOf(UpperCase[symbol]) = {} => last.viseme = "REST"
          /\ (last.phoneme \notin DOMAIN UpperCase /\ ClassesOf(last.phoneme) = {})
                => last.viseme = "REST"
          /\ last.index \in 0..8
          /\ last.viseme = "REST" <=> last.index = 0

\* The lower-case symbol sh has been reduced to the class S, index 8.
C29_Witness ==
    last.op = "viseme" /\ last.phoneme = "sh" /\ last.viseme = "S" /\ last.index = 8

(***************************************************************************)
(* Progress                                                                *)
(***************************************************************************)
\* C30: the percent published for a progress event with the value v is
\* round(v * 100); a start event publishes 0 and a success event 100.
C30_PercentIsRounded ==
    [][\A j \in Jobs :
          /\ MonitorStderr(j, "progress")
                => cls'._progress_percent = round(ProgressValue * 100)
          /\ MonitorStderr(j, "start") => cls'._progress_percent = 0
          /\ MonitorStderr(j, "success") => cls'._progress_percent = 100]_vars

(***************************************************************************)
(* The poller and the worker's result (poller specification)               *)
(***************************************************************************)
\* The operator instance of job p begins a timer tick in this step.
TickStarts(p) == poller[p] = [modal |-> TRUE, timer |-> TRUE] /\ poller'[p] # poller[p]

\* The tick of job p's instance ends the poller and reports the result
\* that is present.
ResultProcessed(p) ==
    /\ ~poller'[p].modal
    /\ last'.op = "modal" /\ last'.job = p
    /\ IF cls._cancelled THEN last'.text = "Analysis cancelled"
       ELSE IF cls._result.ok
       THEN last'.ret = "FINISHED" /\ phoneme_data_cache' = cls._result.data
       ELSE last'.level = "ERROR" /\ last'.text = cls._result.msg

\* A tick reports the thread as died without a result in this step.
ThreadDiedReported ==
    last' # last /\ last'.op = "modal" /\ last'.text = "Analysis failed unexpectedly"

\* The worker of job j has ended and never stored a result.
DiedWithoutResult(j) == worker[j].pc = "dead" /\ worker[j].raised = "UnicodeEncodeError"

\* C31: a timer tick that finds a result processes it, whether the thread
\* is alive or not, and the "thread died without setting result" error is
\* reported only on the poller of a job whose worker has ended without ever
\* storing a result, with the worker running between the tick's reads.
C31_ResultIsAuthoritative ==
    [][\A p \in Jobs :
          /\ (TickStarts(p) /\ cls._result # NoResult) => ResultProcessed(p)
          /\ (ThreadDiedReported /\ last'.job = p) => DiedWithoutResult(p)]_vars

\* The tick of job p's instance that ends in this step found no result and
\* the recorded thread alive: the worker is still running.
TickOnRunningJob(p) ==
    /\ last' # last /\ last'.op = "modal" /\ last'.job = p
    /\ cls._result = NoResult /\ ThreadAlive(cls)

\* C32: a timer tick never ends a job because of the time that has passed:
\* a tick that finds no result and the worker thread alive leaves the poller
\* installed, the analyzing flag and the class state as they are, and
\* reports nothing; only the worker's wait on the tool times out.
C32_PollerOnlyDisplays ==
    [][\A p \in Jobs :
          TickOnRunningJob(p)
             => /\ poller'[p].modal /\ poller'[p].timer
                /\ audio_analyzing' = audio_analyzing
                /\ cls' = cls
                /\ last'.ret = "PASS_THROUGH" /\ last'.level = ""]_vars

(***************************************************************************)
(* The control thread and the tool (system specification)                  *)
(***************************************************************************)
\* A call of execute or modal returns in this step.
ControlStep == last' # last /\ last'.op \in {"execute", "modal"}

\* A subprocess of job j is started in this step.
Spawns(j) == worker'[j].spawned # worker[j].spawned

\* A wait of job j on a subprocess ends in this step: the converter has
\* ended, or communicate has returned or timed out.
WaitEnds(j) ==
    /\ worker[j].pc \in {"convert", "communicate"}
    /\ worker'[j].pc # worker[j].pc

\* modal called with a TIMER event on the operator instance of job p
ModalTimer(p) ==
    ModalResultReady(p) \/ ModalThreadDied(p) \/ ModalTimeout(p) \/ ModalProgress(p)

\* C33: execute and modal wait for nothing: a tick can be taken in every
\* state in which its poller is installed and execute in every state,
\* whatever the worker, the converter and the tool are doing; their steps
\* start no subprocess and end no wait on one, and leave every worker as it
\* is except for the new thread execute starts; subprocesses are started and
\* waited for in steps of a live worker thread only.
C33_ControlNeverBlocks ==
    /\ [](\A p \in Jobs : poller[p].modal => ENABLED ModalTimer(p))
    /\ [](njobs < MaxJobs => \A cfg \in SysConfigs : ENABLED Execute(cfg[1], cfg[2], cfg[3]))
    /\ [][ControlStep
             => \A j \in Jobs :
                   \/ worker'[j] = worker[j]
                   \/ /\ worker[j].pc = "unborn" /\ worker'[j].pc = "start"
                      /\ worker'[j].spawned = {} /\ worker'[j].proc = "none"]_vars
    /\ [][\A j \in Jobs :
             (Spawns(j) \/ WaitEnds(j)) => (last' = last /\ is_alive(j))]_vars

\* A tick is taken while the tool of its job is running, and the job's
\* worker has started the version check, the converter and the tool.
C33_Witness ==
    \E p \in Jobs :
       /\ last.op = "modal" /\ last.job = p /\ last.ret = "PASS_THROUGH"
       /\ poller[p].modal
       /\ worker[p].proc = "running"
       /\ worker[p].spawned = {"version", "ffmpeg", "rhubarb"}

(***************************************************************************)
(* The progress channel and the job's outcome (worker specification)       *)
(***************************************************************************)
\* The stderr monitor of job j takes in an event in this step.
EventArrives(j) ==
    /\ worker'[j].stderr_lines # worker[j].stderr_lines
    /\ worker'[j].stderr_lines \in StderrEvents

\* C34: an event on the progress channel, a failure event included, neither
\* ends the job nor sets its result; once the tool has ended by itself the
\* job's result is a success exactly if the exit code is 0 and stdout holds
\* cues, whatever the last event was: a failure event before exit code 0
\* with a valid payload gives success, a success event before a non-zero
\* exit code gives failure.
C34_OutcomeFromExitAndPayload ==
    /\ [][\A j \in Jobs :
             EventArrives(j)
                => /\ worker'[j].pc = worker[j].pc
                   /\ worker'[j].proc = worker[j].proc
                   /\ worker'[j].wrote = worker[j].wrote
                   /\ cls'._result = cls._result]_vars
    /\ [](\A j \in Finishing :
             ToolEnded(j)
                => /\ worker[j].wrote.ok
                         = (/\ worker[j].returncode = 0
                            /\ worker[j].stdout_data = "{mouthCues: [X, A]}")
                   /\ cls._result = worker[j].wrote)

\* A job that ends in success after a failure event: exit code 0 and a
\* valid payload.
C34_Witness ==
    \E j \in Finishing :
       /\ ToolEnded(j) /\ worker[j].stderr_lines = "failure"
       /\ worker[j].returncode = 0 /\ worker[j].wrote.ok
       /\ cls._result.ok

(***************************************************************************)
(* One terminal report per job (system specification)                      *)
(***************************************************************************)
\* C35: at most one modal poller is installed at a time, so that a job is
\* watched by one poller only, and no job gets the "failed unexpectedly"
\* report after its result was reported: the poller of the job whose
\* timeline a tick has stored never reports the thread as died.
C35_OneTerminalReport ==
    /\ [](Cardinality(InProgress) <= 1)
    /\ [][ThreadDiedReported => phoneme_data_cache.metadata.job # last'.job]_vars

(***************************************************************************)
(* The stored and the cached timeline and the audio selection              *)
(***************************************************************************)
\* The text block of hash h is written in this step.
EntryWritten(h) == texts'[h] # texts[h] /\ texts'[h] \notin {NoText, NotJson}

\* C36: a timeline is saved only under the content hash of the audio file
\* it was extracted from: whenever a step writes an entry of the store, the
\* file the entry's timeline was extracted from hashes to the entry's key,
\* also when the audio selection has changed while the job was running.
C36_EntryHoldsItsAudio ==
    [][\A h \in Hashes :
          EntryWritten(h)
             => get_audio_hash(json_loads(texts'[h]).phoneme_data.metadata.src) = h]_vars

\* C37: whenever phoneme_data_cached is true, the timeline in the module
\* cache was extracted from audio with the content of the file that is
\* selected now (by a job, or by the job whose stored timeline was loaded).
C37_CacheIsOfSelection ==
    phoneme_data_cached
       => /\ phoneme_data_cache # NoData
          /\ get_audio_hash(phoneme_data_cache.metadata.src) = get_audio_hash(audio_filepath)

(***************************************************************************)
(* The analyzing flag and the poller (system specification)                *)
(***************************************************************************)
\* The modal poller of job p ends in this step.
PollerEnds(p) == poller[p].modal /\ ~poller'[p].modal

\* The flag is set by execute only: a step that raises it is a call of
\* execute, and a call of execute that leaves it set has started a worker
\* and registered its poller, or has rejected the request while it was set.
SetByExecuteOnly ==
    /\ (audio_analyzing' /\ ~audio_analyzing) => ExecuteReturned
    /\ (ExecuteReturned /\ audio_analyzing')
          => \/ /\ last'.ret = "RUNNING_MODAL"
                /\ worker[last'.job].pc = "unborn" /\ worker'[last'.job].pc = "start"
                /\ ~poller[last'.job].modal /\ poller'[last'.job].modal
             \/ /\ last'.text = "Analysis already in progress"
                /\ audio_analyzing

\* The flag carried over from before the class state of this session was
\* created: no job has been started and no operator has touched the state.
StaleFromStart == njobs = 0 /\ cls = ClsInit

C39_EveryPollerEnds ==
    /\ \A p \in Jobs : poller[p].modal ~> ~poller[p].modal
    /\ [][\A p \in Jobs :
             PollerEnds(p) => (~audio_analyzing' /\ ~poller'[p].timer)]_vars

\* The poller of a job whose worker ended without a result has ended with
\* the thread-died report, and the flag is false.
C39_Witness ==
    /\ last.op = "modal" /\ last.text = "Analysis failed unexpectedly"
    /\ DiedWithoutResult(last.job) /\ cancelled = {}
    /\ ~poller[last.job].modal /\ ~poller[last.job].timer /\ ~audio_analyzing

(***************************************************************************)
(* One keyframe per frame                                                  *)
(***************************************************************************)
\* The frames the cues of the call recorded in "last" quantize to
CallFrames(call) ==
    {FrameOf(call.lipsync_data, i, call.start_frame, call.fps) :
        i \in DOMAIN call.lipsync_data.phonemes}

\* Cue i is the last cue of the call's timeline on its frame
LastOnFrame(call, i) ==
    \A m \in DOMAIN call.lipsync_data.phonemes :
       FrameOf(call.lipsync_data, m, call.start_frame, call.fps)
          = FrameOf(call.lipsync_data, i, call.start_frame, call.fps) => m <= i

\* The index the call's mapping gives the symbol of cue i
CueIndex(call, i) ==
    DictGet(build_phoneme_index_map(call.lipsync_data, call.mapping),
            call.lipsync_data.phonemes[i].phoneme, 0)

\* C40: the keyframes a call of generate produces hold one value per frame:
\* the controller has a keyframe at exactly the frames its cues quantize to
\* (next to those it had, when keyframing directly), the value at a frame
\* several cues quantize to is that of the last of them in the order of the
\* timeline, and keyframes_created is the number of distinct frames, which
\* never exceeds phoneme_count, the number of cues.
C40_OneValuePerFrame ==
    [][(Generated /\ last'.text = "")
          => /\ \A i \in DOMAIN last'.lipsync_data.phonemes :
                   LastOnFrame(last', i)
                      => keys'[FrameOf(last'.lipsync_data, i, last'.start_frame,
                                       last'.fps)] = CueIndex(last', i)
             /\ DOMAIN keys' = CallFrames(last')
                                  \cup (IF last'.use_nla THEN {} ELSE DOMAIN keys)
             /\ last'.results.keyframes_created = Cardinality(CallFrames(last'))
             /\ last'.results.phoneme_count = Len(last'.lipsync_data.phonemes)
             /\ last'.results.keyframes_created <= last'.results.phoneme_count]_vars

\* generate has returned for a timeline of which two cues with different
\* indices share a frame; the keyframe there has the index of the later cue
\* and fewer keyframes than cues were created.
C40_Witness ==
    /\ last.op = "generate" /\ last.text = ""
    /\ last.results.keyframes_created < last.results.phoneme_count
    /\ \E i, m \in DOMAIN last.lipsync_data.phonemes :
          /\ i < m /\ LastOnFrame(last, m)
          /\ FrameOf(last.lipsync_data, i, last.start_frame, last.fps)
                = FrameOf(last.lipsync_data, m, last.start_frame, last.fps)
          /\ CueIndex(last, i) # CueIndex(last, m)
          /\ keys[FrameOf(last.lipsync_data, m, last.start_frame, last.fps)]
                = CueIndex(last, m)

====
